---- MODULE Spec2Model ----
(***************************************************************************)
(* A model of the multi-bank backend (ikonushin/syntax, backend/):          *)
(*   - the token cache of services/auth_service.py (authenticate_team),     *)
(*   - the session token codec of services/jwt_utils.py,                    *)
(*   - the consent endpoints of routes/auth.py over services/bank_service.py*)
(*   - the data methods of the gateway and the transaction cache of         *)
(*     routes/accounts.py,                                                  *)
(*   - the tax payment routes of routes/tax_payments.py.                    *)
(* Each part has its own specification over the shared variables           *)
(* (SpecToken and SpecLock; SpecCodec; SpecRoutes, SpecBank and SpecPoll;   *)
(* SpecData; SpecCache and SpecRace; SpecPay and SpecPayBank); the          *)
(* variables a specification does not use stay at their initial values.     *)
(***************************************************************************)
EXTENDS Integers, Sequences, FiniteSets, TLC

VARIABLES
    now,             \* the wall clock, in seconds (time.time(), UTC)
    token_cache,     \* auth_service._token_cache: client id -> entry
    token_locks,     \* auth_service._token_locks: client ids that have a lock
    lock_owner,      \* per client id: the task inside "async with lock", or NoTask
    lock_waiters,    \* per client id: the FIFO queue of tasks awaiting the lock
    task,            \* per task: its authenticate_team call (position and locals)
    issued,          \* bank tokens the upstream has issued so far
    utc_offset,      \* the process's local time zone: seconds east of UTC
    verify_iat,      \* whether the installed PyJWT rejects an iat in the future
    session,         \* the session token (JWT) the caller holds
    decoded,         \* what the last decode_token call gave
    advances,        \* clock advances made so far
    consents,        \* the Consent table
    last,            \* the last call of a route or of a BankService method
    fetched,         \* the last call of BankService.get_accounts / get_transactions
    tx_cache,        \* routes/accounts.py _tx_cache: cache key -> entry
    listed,          \* the last call of list_transactions
    listing,         \* per request: a list_transactions call awaiting the bank
    tax_payment,     \* the TaxPayment row
    pay,             \* the last call of pay_tax / confirm_payment_approval
    mapped           \* the last payment status put through the status mapping

tokenVars == <<token_cache, token_locks, lock_owner, lock_waiters, task, issued>>

codecVars == <<utc_offset, verify_iat, session, decoded, advances>>

routeVars == <<consents, last>>

dataVars == <<fetched>>

cacheVars == <<tx_cache, listed, listing>>

payVars == <<tax_payment, pay, mapped>>

vars == <<now, tokenVars, codecVars, routeVars, dataVars, cacheVars, payVars>>

\* what the token cache's operations leave alone
notToken == <<codecVars, routeVars, dataVars, cacheVars, payVars>>
\* what the codec's operations leave alone
notCodec == <<tokenVars, routeVars, dataVars, cacheVars, payVars>>
\* what the data methods of the gateway leave alone
notData == <<now, tokenVars, codecVars, routeVars, cacheVars, payVars>>
\* what list_transactions leaves alone
notCache == <<now, tokenVars, codecVars, routeVars, dataVars, payVars>>
\* what the tax payment routes leave alone
notPay == <<now, tokenVars, codecVars, routeVars, dataVars, cacheVars>>

(***************************************************************************)
(* Bounds of the model.                                                     *)
(***************************************************************************)
NumTasks == 2
MaxTime == 1
MaxAdvances == 2
MaxRows == 1
MaxItems == 2

(***************************************************************************)
(* Program constants.                                                       *)
(***************************************************************************)
SAFETY_MARGIN == 300
DEFAULT_EXPIRES_IN == 3600
JWT_EXPIRY_MINUTES == 30
DEFAULT_BANK_TOKEN_EXPIRES_IN == 86400

Tasks == 1..NumTasks
NoTask == 0
ClientIds == {"team1", "team2"}
RouteClientIds == {"team1"}
\* "" is a missing credential (falsy in Python)
ClientIdInputs == ClientIds \cup {""}
SecretInputs == {"", "secret"}

NoEntry == [present |-> FALSE, token |-> 0, expires_at |-> 0]

(***************************************************************************)
(* services/auth_service.py: authenticate_team                              *)
(***************************************************************************)

\* "if not client_id or not client_secret" raises 400 before anything else
CredentialsMissing(client_id, client_secret) ==
    client_id = "" \/ client_secret = ""

\* a mutant: the safety margin is subtracted a second time at the check
CacheLiveDoubleMargin(entry, current_time) ==
    entry.present /\ current_time < entry.expires_at - SAFETY_MARGIN

\* "client_id in _token_cache and current_time < cached['expires_at']"
CacheLive(entry, current_time) ==
    entry.present /\ current_time < entry.expires_at

\* what a call returns; http_status is the HTTPException's status code,
\* raised names the exception type that leaves authenticate_team
Returned(token, expires_in) ==
    [kind |-> "ok", token |-> token, expires_in |-> expires_in,
     http_status |-> 200, raised |-> "none"]

Raised(exception, http_status) ==
    [kind |-> "error", token |-> 0, expires_in |-> 0,
     http_status |-> http_status, raised |-> exception]

NoResult == [kind |-> "none", token |-> 0, expires_in |-> 0,
             http_status |-> 0, raised |-> "none"]

\* the cached branch: return cached["token"], int(expires_at - current_time)
CacheHit(entry, current_time) ==
    Returned(entry.token, entry.expires_at - current_time)

(***************************************************************************)
(* The upstream's answers to POST /auth/bank-token.  transport is "http"    *)
(* (a response came back), "timeout" (httpx.TimeoutException) or "connect"  *)
(* (another httpx.RequestError).  A 200 body may lack access_token, may     *)
(* carry "detail", may lack expires_in, and may not be JSON at all.         *)
(***************************************************************************)
StatusCodes == {200, 400, 401, 403, 500}
ExpiresInValues == {SAFETY_MARGIN, SAFETY_MARGIN + 1}

HttpResponse(status, json, has_token, detail, has_expires_in, expires_in) ==
    [transport |-> "http", status |-> status, json |-> json,
     has_token |-> has_token, detail |-> detail,
     has_expires_in |-> has_expires_in, expires_in |-> expires_in]

TransportFailure(t) ==
    [transport |-> t, status |-> 0, json |-> FALSE, has_token |-> FALSE,
     detail |-> FALSE, has_expires_in |-> FALSE, expires_in |-> 0]

UpstreamAnswers ==
    {HttpResponse(200, TRUE, TRUE, FALSE, TRUE, e) : e \in ExpiresInValues}
    \cup {HttpResponse(200, TRUE, TRUE, FALSE, FALSE, 0)}
    \cup {HttpResponse(200, TRUE, FALSE, d, FALSE, 0) : d \in BOOLEAN}
    \cup {HttpResponse(200, FALSE, FALSE, FALSE, FALSE, 0)}
    \cup {HttpResponse(s, TRUE, FALSE, TRUE, FALSE, 0) : s \in StatusCodes \ {200}}
    \cup {TransportFailure("timeout"), TransportFailure("connect")}

\* data.get("expires_in", 3600)
ExpiresInOf(resp) ==
    IF resp.has_expires_in THEN resp.expires_in ELSE DEFAULT_EXPIRES_IN

\* expires_at = current_time + expires_in - 300
StoredExpiry(current_time, expires_in) ==
    current_time + expires_in - SAFETY_MARGIN

\* whether the response is stored and returned as a token
ResponseAccepted(resp) ==
    /\ resp.transport = "http"
    /\ resp.status = 200
    /\ resp.json
    /\ resp.has_token

\* "return access_token, expires_in" of a fresh authentication
FreshResult(resp, token, current_time) ==
    Returned(token, ExpiresInOf(resp))

\* the status checks, raise_for_status, the body checks and the except clauses
HandleFailure(resp) ==
    IF resp.transport = "timeout" THEN Raised("HTTPException", 503)
    ELSE IF resp.transport = "connect" THEN Raised("HTTPException", 503)
    ELSE IF resp.status = 401 THEN Raised("HTTPException", 401)
    ELSE IF resp.status = 400 THEN Raised("HTTPException", 400)
    ELSE IF resp.status >= 500 THEN Raised("HTTPException", 503)
    \* response.raise_for_status(): httpx.HTTPStatusError is no RequestError
    \* and no except clause catches it
    ELSE IF resp.status # 200 THEN Raised("httpx.HTTPStatusError", 0)
    \* response.json() on a body that is not JSON
    ELSE IF ~resp.json THEN Raised("json.JSONDecodeError", 0)
    \* "detail" in data and no access_token; or: not access_token
    ELSE Raised("HTTPException", 401)

(***************************************************************************)
(* The tasks that call authenticate_team.  Besides the call's position and  *)
(* locals, a task records what the call observed: whether it came with     *)
(* both credentials (valid), the cache entry its re-check under the lock    *)
(* saw (seen), the entry it returned from (used), the upstream's answer,    *)
(* the upstream requests it sent, whether it waited, and which other tasks  *)
(* had a call for the same client id in flight (concurrent) or finished     *)
(* (earlier) when it started.                                               *)
(***************************************************************************)
NoAnswer == TransportFailure("none")

IdleTask ==
    [pc |-> "idle", client_id |-> "", current_time |-> 0,
     valid |-> FALSE, result |-> NoResult, requests |-> 0, waited |-> FALSE,
     seen |-> NoEntry, used |-> NoEntry, answer |-> NoAnswer,
     concurrent |-> {}, earlier |-> {}]

InFlight(c) ==
    {q \in Tasks : task[q].pc \in {"waiting", "upstream"} /\ task[q].client_id = c}

Finished(c) ==
    {q \in Tasks : task[q].pc = "done" /\ task[q].client_id = c}

StartedTask(c) ==
    [IdleTask EXCEPT !.client_id = c, !.current_time = now, !.valid = TRUE,
                     !.concurrent = InFlight(c), !.earlier = Finished(c)]

\* Each task makes one call; the tasks start in the order of their numbers
\* (which task serves which request makes no difference)
NextCaller(p) ==
    /\ task[p].pc = "idle"
    /\ \A q \in Tasks : q < p => task[q].pc # "idle"

\* _get_lock: the lock of a client id is created on first use
GetLock(c) == token_locks \cup {c}

\* a mutant: one lock for all client ids
LockFreeShared(c) ==
    \A k \in ClientIds : lock_owner[k] = NoTask /\ lock_waiters[k] = <<>>

\* asyncio.Lock.acquire takes a free lock at once only when nobody waits
LockFree(c) == lock_owner[c] = NoTask /\ lock_waiters[c] = <<>>

\* authenticate_team up to its first await: the argument check, the cache
\* check, and, on a miss, the lock: taken at once when free (then the re-check
\* sees the same cache and the request is sent), queued for otherwise
Call(p, c, s) ==
    /\ NextCaller(p)
    /\ ~CredentialsMissing(c, s)
    /\ IF CacheLive(token_cache[c], now)
       THEN /\ task' = [task EXCEPT ![p] =
                   [StartedTask(c) EXCEPT !.pc = "done",
                                          !.used = token_cache[c],
                                          !.result = CacheHit(token_cache[c], now)]]
            /\ UNCHANGED <<token_locks, lock_owner, lock_waiters>>
       ELSE /\ token_locks' = GetLock(c)
            /\ IF LockFree(c)
               THEN /\ task' = [task EXCEPT ![p] =
                          [StartedTask(c) EXCEPT !.pc = "upstream", !.requests = 1]]
                    /\ lock_owner' = [lock_owner EXCEPT ![c] = p]
                    /\ UNCHANGED lock_waiters
               ELSE /\ task' = [task EXCEPT ![p] =
                          [StartedTask(c) EXCEPT !.pc = "waiting", !.waited = TRUE]]
                    /\ lock_waiters' = [lock_waiters EXCEPT ![c] = Append(@, p)]
                    /\ UNCHANGED lock_owner
    /\ UNCHANGED <<now, token_cache, issued, notToken>>

\* a call with a missing client_id or client_secret: HTTP 400, nothing else
CallRejected(p, c, s) ==
    /\ NextCaller(p)
    /\ CredentialsMissing(c, s)
    /\ task' = [task EXCEPT ![p] =
                   [IdleTask EXCEPT !.pc = "done", !.client_id = c,
                                    !.earlier = Finished(c),
                                    !.result = Raised("HTTPException", 400)]]
    /\ UNCHANGED <<now, token_cache, token_locks, lock_owner, lock_waiters, issued,
                   notToken>>

\* a mutant: the waiter does not re-check the cache after acquiring the lock
RecheckSkipped(entry, current_time) == FALSE

\* the double-check under the lock, with the current_time read before the wait
Recheck(entry, current_time) == CacheLive(entry, current_time)

\* the first waiter resumes inside "async with lock": the re-check either
\* returns the cached token (leaving the lock) or sends the upstream request
AcquireLock(p) ==
    LET c == task[p].client_id IN
    /\ task[p].pc = "waiting"
    /\ lock_owner[c] = NoTask
    /\ lock_waiters[c] # <<>>
    /\ Head(lock_waiters[c]) = p
    /\ lock_waiters' = [lock_waiters EXCEPT ![c] = Tail(@)]
    /\ IF Recheck(token_cache[c], task[p].current_time)
       THEN /\ task' = [task EXCEPT ![p].pc = "done",
                                    ![p].seen = token_cache[c],
                                    ![p].used = token_cache[c],
                                    ![p].result =
                                        CacheHit(token_cache[c], task[p].current_time)]
            /\ UNCHANGED lock_owner
       ELSE /\ task' = [task EXCEPT ![p].pc = "upstream",
                                    ![p].seen = token_cache[c],
                                    ![p].requests = 1]
            /\ lock_owner' = [lock_owner EXCEPT ![c] = p]
    /\ UNCHANGED <<now, token_cache, token_locks, issued, notToken>>

\* a mutant: a failed authentication drops the client's cached token
UpstreamRespondEvicts(p, resp) ==
    LET c == task[p].client_id
        t == task[p].current_time
        entry == [present |-> TRUE, token |-> issued + 1,
                  expires_at |-> StoredExpiry(t, ExpiresInOf(resp))]
    IN
    /\ task[p].pc = "upstream"
    /\ lock_owner' = [lock_owner EXCEPT ![c] = NoTask]
    /\ IF ResponseAccepted(resp)
       THEN /\ issued' = issued + 1
            /\ token_cache' = [token_cache EXCEPT ![c] = entry]
            /\ task' = [task EXCEPT ![p].pc = "done",
                                    ![p].answer = resp,
                                    ![p].used = entry,
                                    ![p].result = FreshResult(resp, issued + 1, t)]
       ELSE /\ task' = [task EXCEPT ![p].pc = "done",
                                    ![p].answer = resp,
                                    ![p].result = HandleFailure(resp)]
            /\ token_cache' = [token_cache EXCEPT ![c] = NoEntry]
            /\ UNCHANGED issued
    /\ UNCHANGED <<now, token_locks, lock_waiters, notToken>>

\* a mutant: the lock is released by hand on the paths that return or raise
\* an HTTPException, and stays held when another exception leaves the call
UpstreamRespondKeepsLock(p, resp) ==
    LET c == task[p].client_id
        t == task[p].current_time
        entry == [present |-> TRUE, token |-> issued + 1,
                  expires_at |-> StoredExpiry(t, ExpiresInOf(resp))]
    IN
    /\ task[p].pc = "upstream"
    /\ IF ResponseAccepted(resp)
       THEN /\ issued' = issued + 1
            /\ token_cache' = [token_cache EXCEPT ![c] = entry]
            /\ lock_owner' = [lock_owner EXCEPT ![c] = NoTask]
            /\ task' = [task EXCEPT ![p].pc = "done",
                                    ![p].answer = resp,
                                    ![p].used = entry,
                                    ![p].result = FreshResult(resp, issued + 1, t)]
       ELSE /\ task' = [task EXCEPT ![p].pc = "done",
                                    ![p].answer = resp,
                                    ![p].result = HandleFailure(resp)]
            /\ lock_owner' = IF HandleFailure(resp).raised = "HTTPException"
                             THEN [lock_owner EXCEPT ![c] = NoTask]
                             ELSE lock_owner
            /\ UNCHANGED <<issued, token_cache>>
    /\ UNCHANGED <<now, token_locks, lock_waiters, notToken>>

\* the upstream answers (or the transport fails): the token is stored and
\* returned, or the failure raised; either way the lock is left
UpstreamRespond(p, resp) ==
    LET c == task[p].client_id
        t == task[p].current_time
        entry == [present |-> TRUE, token |-> issued + 1,
                  expires_at |-> StoredExpiry(t, ExpiresInOf(resp))]
    IN
    /\ task[p].pc = "upstream"
    /\ lock_owner' = [lock_owner EXCEPT ![c] = NoTask]
    /\ IF ResponseAccepted(resp)
       THEN /\ issued' = issued + 1
            /\ token_cache' = [token_cache EXCEPT ![c] = entry]
            /\ task' = [task EXCEPT ![p].pc = "done",
                                    ![p].answer = resp,
                                    ![p].used = entry,
                                    ![p].result = FreshResult(resp, issued + 1, t)]
       ELSE /\ task' = [task EXCEPT ![p].pc = "done",
                                    ![p].answer = resp,
                                    ![p].result = HandleFailure(resp)]
            /\ UNCHANGED <<issued, token_cache>>
    /\ UNCHANGED <<now, token_locks, lock_waiters, notToken>>

\* get_cached_token: an entry found expired is removed (the other branches
\* only read)
GetCachedToken(c) ==
    /\ token_cache[c].present
    /\ ~(now < token_cache[c].expires_at)
    /\ token_cache' = [token_cache EXCEPT ![c] = NoEntry]
    /\ UNCHANGED <<now, token_locks, lock_owner, lock_waiters, task, issued,
                   notToken>>

\* time passes
Tick ==
    /\ now < MaxTime
    /\ now' = now + 1
    /\ UNCHANGED <<tokenVars, notToken>>

(***************************************************************************)
(* services/jwt_utils.py: the session token codec                           *)
(*                                                                          *)
(* A token is its payload and the key that signed it.  encode_token takes   *)
(* "now" from datetime.utcnow(), a naive datetime, and converts it with     *)
(* .timestamp(), which reads a naive datetime as local time: the result is  *)
(* the UTC instant less the local zone's offset.  jwt.decode compares the   *)
(* claims with the true UTC instant.                                        *)
(***************************************************************************)
JWT_SECRET == "JWT_SECRET"
JWT_EXPIRY_SECONDS == JWT_EXPIRY_MINUTES * 60

\* an optional string argument: absent (None) or a string, possibly empty
None == [given |-> FALSE, value |-> ""]
Some(v) == [given |-> TRUE, value |-> v]
\* Python's truth value of an optional string
Truthy(opt) == opt.given /\ opt.value # ""

\* an optional integer argument is 0 when absent: "x or y" takes y for both
OrElse(x, y) == IF x = 0 THEN y ELSE x

\* datetime.utcnow().timestamp(): the naive UTC reading taken as local time
NaiveUtcTimestamp(t) == t - utc_offset

EncodePayload(access_token, client_id, expires_in, bank_token_expires_in, client_secret) ==
    [access_token |-> access_token,
     client_id |-> client_id,
     token_type |-> "bearer",
     expires_in |-> OrElse(bank_token_expires_in, expires_in),
     iat |-> NaiveUtcTimestamp(now),
     exp |-> NaiveUtcTimestamp(now + JWT_EXPIRY_SECONDS),
     has_secret |-> Truthy(client_secret),
     client_secret |-> IF Truthy(client_secret) THEN client_secret.value ELSE "",
     bank_token |-> ""]

\* the token encode_token returns, with the instant and the arguments of
\* its issue
EncodeToken(access_token, client_id, expires_in, bank_token_expires_in, client_secret) ==
    [held |-> TRUE,
     key |-> JWT_SECRET,
     payload |-> EncodePayload(access_token, client_id, expires_in,
                               bank_token_expires_in, client_secret),
     issued_at |-> now,
     client_id |-> client_id,
     client_secret |-> client_secret,
     upstream_expires_in |-> expires_in]

NoPayload ==
    [access_token |-> "", client_id |-> "", token_type |-> "", expires_in |-> 0,
     iat |-> 0, exp |-> 0, has_secret |-> FALSE, client_secret |-> "",
     bank_token |-> ""]

NoSession ==
    [held |-> FALSE, key |-> "", payload |-> NoPayload, issued_at |-> 0,
     client_id |-> "", client_secret |-> None, upstream_expires_in |-> 0]

\* decode_token at instant t: jwt.decode checks the signature, then iat (in
\* the PyJWT versions that do), then exp (expired when exp <= now); a valid
\* payload gets the bank_token alias
DecodeToken(tok, t) ==
    IF ~tok.held \/ tok.key # JWT_SECRET
        THEN [status |-> "InvalidTokenError", payload |-> NoPayload]
    ELSE IF verify_iat /\ tok.payload.iat > t
        THEN [status |-> "InvalidTokenError", payload |-> NoPayload]
    ELSE IF tok.payload.exp <= t
        THEN [status |-> "ExpiredSignatureError", payload |-> NoPayload]
    ELSE [status |-> "ok",
          payload |-> [tok.payload EXCEPT !.bank_token = tok.payload.access_token]]

NoDecode == [done |-> FALSE, at |-> 0, token |-> NoSession,
             status |-> "", payload |-> NoPayload]

CodecClientIds == {"team1", "team1-2"}
CodecSecrets == {None, Some(""), Some("secret")}
BankTokens == {"bank-token"}
BankExpiresIn == {60, 3600}
BankExpiresInOverride == {0, 86400}
UtcOffsets == {-3600, 0, 3600}
ClockSteps == {1, JWT_EXPIRY_SECONDS - 1, 2 * JWT_EXPIRY_SECONDS}

\* a session token is issued (a behaviour follows one token)
Encode(a, c, e, b, s) ==
    /\ ~session.held
    /\ session' = EncodeToken(a, c, e, b, s)
    /\ UNCHANGED <<now, utc_offset, verify_iat, decoded, advances, notCodec>>

\* the held token is verified
Decode ==
    /\ session.held
    /\ decoded' = [done |-> TRUE, at |-> now, token |-> session,
                   status |-> DecodeToken(session, now).status,
                   payload |-> DecodeToken(session, now).payload]
    /\ UNCHANGED <<now, utc_offset, verify_iat, session, advances, notCodec>>

\* the caller presents a token that JWT_SECRET did not sign
Forge ==
    /\ session.held
    /\ session.key = JWT_SECRET
    /\ session' = [session EXCEPT !.key = "another key"]
    /\ UNCHANGED <<now, utc_offset, verify_iat, decoded, advances, notCodec>>

\* time passes
Advance(d) ==
    /\ advances < MaxAdvances
    /\ advances' = advances + 1
    /\ now' = now + d
    /\ UNCHANGED <<utc_offset, verify_iat, session, decoded, notCodec>>

CodecIdle ==
    /\ session = NoSession
    /\ decoded = NoDecode
    /\ advances = 0

(***************************************************************************)
(* routes/auth.py over services/auth_service.py and services/bank_service.py*)
(*                                                                          *)
(* The Consent table is a set of rows (without their primary keys and      *)
(* timestamps); a query's .first() may give any matching row.  A missing value (None) is "".  A handler runs as one      *)
(* step: it takes the upstream's answers as inputs and leaves its reply in  *)
(* "last".                                                                  *)
(***************************************************************************)
Banks == {"abank", "sbank", "vbank"}
\* auto_approved = self.bank_name in ["abank", "vbank"]
AutoApprovalBanks == {"abank", "vbank"}
\* bank_id.lower()
Lower(b) == IF b = "ABANK" THEN "abank" ELSE b
BankIdInputs == {"ABANK", "sbank", "vbank", "xbank", ""}
UserIds == {"team1-1"}
UserIdInputs == UserIds \cup {""}
BankConsentIds == {"consent-1"}
BankRequestIds == {"req-1"}
\* the ids a caller asks about
ConsentIdInputs == BankConsentIds \cup BankRequestIds
\* consent_id.startswith("req-")
IsRequestId(id) == id \in BankRequestIds

\* a URL, by the request id its text carries ("" when it carries none)
NoUrl == [present |-> FALSE, request_id |-> ""]
Url(r) == [present |-> TRUE, request_id |-> r]
\* f"https://{bank}.open.bankingapi.ru/client/consents.html?request_id={request_id}"
ConsentsPage(bank, request_id) == Url(request_id)
\* f"pending-{request_id}"
PendingId(request_id) == "pending-" \o (IF request_id = "" THEN "None" ELSE request_id)

NoRow ==
    [bank_name |-> "", client_id |-> "", consent_id |-> "",
     request_id |-> "", status |-> ""]
\* what .first() may give
First(rows) == IF rows = {} THEN {NoRow} ELSE rows
\* a row rewritten
Update(db, row, new) == (db \ {row}) \cup {new}

(***************************************************************************)
(* Calls.  A Python call binds when each argument names a parameter and     *)
(* each parameter without a default gets an argument; otherwise the call    *)
(* raises TypeError before the callee runs.                                 *)
(***************************************************************************)
AuthenticateWithBankParams == {"client_id", "client_secret"}
GetConsentIdByRequestIdParams == {"bank_token", "request_id"}
Binds(params, arguments) == arguments = params

\* how the routes other than authenticate call authenticate_with_bank
BankAuthArguments == {"client_id", "client_secret", "bank_id"}
\* how get_consent_details calls get_consent_id_by_request_id
RequestIdArguments == {"bank_token", "request_id", "client_id"}

(***************************************************************************)
(* authenticate_with_bank: every HTTPException raised inside its try block  *)
(* (upstream 401, 400, no access_token) is caught by its own               *)
(* "except Exception" and leaves as a 500; raise_for_status errors keep     *)
(* the upstream's status.                                                   *)
(***************************************************************************)
AuthOk == HttpResponse(200, TRUE, TRUE, FALSE, TRUE, DEFAULT_EXPIRES_IN)

AuthAnswers ==
    {AuthOk,
     HttpResponse(200, TRUE, FALSE, FALSE, FALSE, 0),
     HttpResponse(401, TRUE, FALSE, TRUE, FALSE, 0),
     HttpResponse(503, TRUE, FALSE, TRUE, FALSE, 0),
     TransportFailure("timeout")}

AuthenticateWithBank(resp) ==
    IF resp.transport # "http" THEN [raised |-> TRUE, http_status |-> 500]
    ELSE IF resp.status \in {400, 401} THEN [raised |-> TRUE, http_status |-> 500]
    ELSE IF resp.status >= 400 THEN [raised |-> TRUE, http_status |-> resp.status]
    ELSE IF ~resp.json \/ ~resp.has_token THEN [raised |-> TRUE, http_status |-> 500]
    ELSE [raised |-> FALSE, http_status |-> 200]

\* token_data.get("expires_in", default)
ExpiresInOr(resp, default) ==
    IF resp.has_expires_in THEN resp.expires_in ELSE default

(***************************************************************************)
(* The banks' answers to the consent requests.  text_not_found: the error   *)
(* body's text holds "not found".                                           *)
(***************************************************************************)
ConsentAnswer(status, consent_id, id, request_id, consent_status, redirect_uri) ==
    [transport |-> "http", status |-> status, json |-> TRUE,
     consent_id |-> consent_id, id |-> id, request_id |-> request_id,
     consent_status |-> consent_status, redirect_uri |-> redirect_uri,
     text_not_found |-> FALSE]

ConsentError(status, text_not_found) ==
    [transport |-> "http", status |-> status, json |-> TRUE,
     consent_id |-> "", id |-> "", request_id |-> "",
     consent_status |-> "", redirect_uri |-> NoUrl,
     text_not_found |-> text_not_found]

ConsentTimeout ==
    [ConsentError(0, FALSE) EXCEPT !.transport = "timeout"]

ConsentNotJson ==
    [ConsentError(200, FALSE) EXCEPT !.json = FALSE]


\* an answer that lets the caller go on
ConsentOk == ConsentAnswer(200, "consent-1", "", "", "approved", NoUrl)

\* the answers a handler can get where its upstream request is number n:
\* it gets one only when it goes that far (reached is the number of requests
\* it sends when every answer lets it go on)
AnswersAt(n, reached, answers, ok) == IF reached >= n THEN answers ELSE {ok}

ConsentErrors ==
    {ConsentError(s, FALSE) : s \in {401, 404, 500}}
    \cup {ConsentError(500, TRUE), ConsentTimeout}

\* a consent granted at once (under "consent_id" or "id", with or without a
\* status), a request awaiting the client's approval (with or without the
\* bank's page), and a body with none of the fields
CreateAnswers ==
    {ConsentAnswer(200, "consent-1", "", "", "approved", NoUrl),
     ConsentAnswer(200, "consent-1", "", "", "", NoUrl),
     ConsentAnswer(200, "", "consent-1", "", "approved", NoUrl),
     ConsentAnswer(200, "", "", "req-1", "pending", Url("req-1")),
     ConsentAnswer(200, "", "", "req-1", "awaitingAuthorization", NoUrl),
     ConsentAnswer(200, "", "", "", "", NoUrl)}
    \cup ConsentErrors \cup {ConsentNotJson}

StatusAnswers ==
    {ConsentAnswer(200, "consent-1", "", "", s, NoUrl) :
        s \in {"", "authorized", "revoked"}}
    \cup ConsentErrors \cup {ConsentNotJson}

RevokeAnswers ==
    {ConsentAnswer(200, "consent-1", "", "", "revoked", NoUrl), ConsentNotJson}
    \cup ConsentErrors

(***************************************************************************)
(* What a service method gives: the exception that leaves it (none, an      *)
(* HTTPException with its status, or another exception), the result, and    *)
(* the table after it.  not_found: the HTTPException's detail reads as "not *)
(* found".                                                                  *)
(***************************************************************************)
NoBody ==
    [status |-> "", consent_id |-> "", request_id |-> "",
     redirect_url |-> NoUrl, expires_in |-> 0, rows |-> {}, deleted |-> FALSE]

ServiceReturns(body, db) ==
    [raised |-> "none", http_status |-> 200, not_found |-> FALSE,
     body |-> body, db |-> db]

ServiceRaises(exception, http_status, not_found, db) ==
    [raised |-> exception, http_status |-> http_status,
     not_found |-> not_found, body |-> NoBody, db |-> db]

\* the except clauses shared by the BankService methods
ServiceFailure(resp, db) ==
    IF resp.transport # "http"
        THEN ServiceRaises("HTTPException", 503, FALSE, db)
    ELSE IF resp.status >= 400
        THEN ServiceRaises("HTTPException", resp.status, resp.text_not_found, db)
    ELSE ServiceRaises("JSONDecodeError", 0, FALSE, db)

\* BankService.create_consent; existing is what the query for an approved
\* consent of this client and bank gave
ApprovedRows(db, client_id, bank) ==
    {r \in db : r.client_id = client_id /\ r.bank_name = bank /\ r.status = "approved"}

ServiceCreateConsent(db, bank, client_id, resp, existing) ==
    IF resp.transport # "http" \/ resp.status >= 400 \/ ~resp.json
        THEN ServiceFailure(resp, db)
    ELSE
        LET id0 == IF resp.consent_id # "" THEN resp.consent_id ELSE resp.id
            request_id == resp.request_id
            consent_status ==
                IF resp.consent_status # "" THEN resp.consent_status
                ELSE IF bank \in AutoApprovalBanks THEN "approved" ELSE "pending"
            consent_id ==
                IF id0 = "" /\ request_id # "" /\ consent_status = "pending"
                THEN request_id ELSE id0
            updated ==
                [existing EXCEPT
                    !.consent_id = IF consent_id # "" THEN consent_id ELSE @,
                    !.request_id = IF request_id # "" THEN request_id ELSE @,
                    !.status = consent_status]
            created ==
                [bank_name |-> bank, client_id |-> client_id,
                 consent_id |-> IF consent_id # "" THEN consent_id
                                ELSE PendingId(request_id),
                 request_id |-> request_id, status |-> consent_status]
        IN  ServiceReturns(
                [NoBody EXCEPT !.consent_id = consent_id,
                               !.request_id = request_id,
                               !.status = consent_status,
                               !.redirect_url = resp.redirect_uri],
                IF existing # NoRow THEN Update(db, existing, updated)
                ELSE db \cup {created})

\* the rows the methods look up by consent id and bank
RowsOfBank(db, consent_id, bank) ==
    {r \in db : r.consent_id = consent_id /\ r.bank_name = bank}

\* get_consent_status with the default status of get_consent_id_by_request_id
ServiceGetConsentStatusDefaulted(db, bank, consent_id, resp, row) ==
    IF resp.transport # "http" \/ resp.status >= 400 \/ ~resp.json
        THEN IF resp.transport = "http" /\ resp.status = 404
             THEN ServiceRaises("HTTPException", 404, TRUE, db)
             ELSE ServiceFailure(resp, db)
    ELSE LET status_val == IF resp.consent_status # "" THEN resp.consent_status
                           ELSE "authorized"
         IN  ServiceReturns(
                [NoBody EXCEPT !.status = status_val, !.request_id = resp.request_id],
                IF row # NoRow /\ row.status # status_val
                THEN Update(db, row, [row EXCEPT !.status = status_val])
                ELSE db)

\* BankService.get_consent_status
ServiceGetConsentStatus(db, bank, consent_id, resp, row) ==
    IF resp.transport # "http" \/ resp.status >= 400 \/ ~resp.json
        THEN IF resp.transport = "http" /\ resp.status = 404
             THEN ServiceRaises("HTTPException", 404, TRUE, db)
             ELSE ServiceFailure(resp, db)
    \* a body without "status" puts None into the status column, which
    \* the table does not accept (the column is not nullable)
    ELSE IF row # NoRow /\ resp.consent_status = ""
        THEN ServiceRaises("IntegrityError", 0, FALSE, db)
    ELSE ServiceReturns(
            [NoBody EXCEPT !.status = resp.consent_status,
                           !.request_id = resp.request_id],
            IF row # NoRow /\ row.status # resp.consent_status
            THEN Update(db, row, [row EXCEPT !.status = resp.consent_status])
            ELSE db)

\* BankService.revoke_consent: a body that is not JSON is taken as revoked
ServiceRevokeConsent(db, bank, consent_id, resp, row) ==
    IF resp.transport # "http" \/ resp.status >= 400
        THEN IF resp.transport = "http" /\ resp.status = 404
             THEN ServiceRaises("HTTPException", 404, TRUE, db)
             ELSE ServiceFailure(resp, db)
    ELSE ServiceReturns(
            [NoBody EXCEPT !.status = "revoked"],
            IF row # NoRow
            THEN Update(db, row, [row EXCEPT !.status = "revoked"])
            ELSE db)

\* BankService.get_consent_id_by_request_id; the row it creates has no
\* client_id, which the table does not accept (the column is not nullable)
ServiceGetConsentIdByRequestId(db, bank, request_id, resp, row) ==
    IF resp.transport # "http" \/ resp.status >= 400 \/ ~resp.json
        THEN IF resp.transport = "http" /\ resp.status = 404
             THEN ServiceRaises("HTTPException", 404, TRUE, db)
             ELSE ServiceFailure(resp, db)
    ELSE
        LET status_val ==
                IF resp.consent_status # "" THEN resp.consent_status
                ELSE "authorized"
        IN  IF row = NoRow
            THEN ServiceRaises("IntegrityError", 0, FALSE, db)
            ELSE ServiceReturns(
                    [NoBody EXCEPT !.consent_id = resp.consent_id,
                                   !.status = status_val],
                    Update(db, row, [row EXCEPT !.status = status_val]))

RequestAnswers ==
    {ConsentAnswer(200, c, "", "", s, NoUrl) :
        c \in BankConsentIds \cup {""}, s \in {"", "pending"}}
    \cup ConsentErrors \cup {ConsentNotJson}

(***************************************************************************)
(* make_authenticated_request, as get_consent_status (the route) calls it   *)
(***************************************************************************)
MakeAuthenticatedRequest(resp) ==
    IF resp.transport # "http"
        THEN ServiceRaises("HTTPException", 503, FALSE, {})
    ELSE IF resp.status >= 400
        THEN ServiceRaises("HTTPException", resp.status, resp.status = 404, {})
    ELSE IF ~resp.json
        THEN ServiceRaises("JSONDecodeError", 0, FALSE, {})
    ELSE ServiceReturns(
            [NoBody EXCEPT !.status = resp.consent_status,
                           !.request_id = resp.request_id], {})

(***************************************************************************)
(* The route handlers.  Each gives the HTTP status of its reply (200, or    *)
(* the HTTPException's), the reply's body, the upstream requests it sent    *)
(* and the table it leaves.  tok is the token the request carries           *)
(* (NoSession when it carries none).                                        *)
(***************************************************************************)
Replies(http_status, body, requests, db) ==
    [http_status |-> http_status, body |-> body, requests |-> requests, db |-> db]

Rejects(http_status, requests, db) == Replies(http_status, NoBody, requests, db)

\* POST /api/authenticate
RouteAuthenticate(db, client_id, client_secret, resp) ==
    IF AuthenticateWithBank(resp).raised
    THEN Rejects(AuthenticateWithBank(resp).http_status, 1, db)
    ELSE Replies(200,
                 [NoBody EXCEPT !.expires_in = ExpiresInOr(resp, DEFAULT_EXPIRES_IN)],
                 1, db)

\* the session token authenticate signs
RouteAuthenticateToken(client_id, client_secret, resp) ==
    EncodeToken("bank-token", client_id,
                ExpiresInOr(resp, DEFAULT_EXPIRES_IN),
                ExpiresInOr(resp, DEFAULT_BANK_TOKEN_EXPIRES_IN),
                Some(client_secret))

\* POST /api/consents
RouteCreateConsent(db, tok, user_id, bank_id, existing, auth, resp, existing2) ==
    LET bank == Lower(bank_id)
        token_data == DecodeToken(tok, now)
        svc == ServiceCreateConsent(db, bank, user_id, resp, existing2)
    IN  IF ~tok.held \/ user_id = "" \/ bank_id = "" THEN Rejects(400, 0, db)
        ELSE IF bank \notin Banks THEN Rejects(400, 0, db)
        ELSE IF existing # NoRow
            THEN Replies(200, [NoBody EXCEPT !.status = "success",
                                             !.consent_id = existing.consent_id],
                         0, db)
        ELSE IF token_data.status # "ok" THEN Rejects(401, 0, db)
        ELSE IF ~token_data.payload.has_secret THEN Rejects(401, 0, db)
        \* TypeError, caught by "except Exception"
        ELSE IF ~Binds(AuthenticateWithBankParams, BankAuthArguments)
            THEN Rejects(503, 0, db)
        ELSE IF AuthenticateWithBank(auth).raised
            THEN Rejects(AuthenticateWithBank(auth).http_status, 1, db)
        ELSE IF svc.raised = "HTTPException" THEN Rejects(svc.http_status, 2, svc.db)
        ELSE IF svc.raised # "none" THEN Rejects(500, 2, svc.db)
        ELSE IF svc.body.status \in {"pending", "awaitingAuthorization"}
            THEN Replies(200,
                    [svc.body EXCEPT
                        !.status = "pending",
                        !.redirect_url =
                            IF ~svc.body.redirect_url.present /\ svc.body.request_id # ""
                            THEN ConsentsPage(bank, svc.body.request_id) ELSE @],
                    2, svc.db)
        ELSE Replies(200, [NoBody EXCEPT !.status = "success",
                                         !.consent_id = svc.body.consent_id],
                     2, svc.db)

\* GET /api/consents/{consent_id}
RouteGetConsentDetails(db, tok, consent_id, bank_id, row, auth, resp, row2) ==
    LET bank == Lower(bank_id)
        token_data == DecodeToken(tok, now)
        byRequest == ServiceGetConsentIdByRequestId(db, bank, consent_id, resp, row2)
        byStatus == ServiceGetConsentStatus(db, bank, consent_id, resp, row2)
        authorized(requests, after) ==
            Replies(200, [NoBody EXCEPT !.consent_id = consent_id,
                                        !.status = "authorized"], requests, after)
    IN  IF consent_id = "" THEN Rejects(400, 0, db)
        ELSE IF IsRequestId(consent_id) /\ bank_id # "" THEN
            IF ~tok.held THEN Rejects(401, 0, db)
            \* a decode error, like every other exception here, gives 400
            ELSE IF token_data.status # "ok" THEN Rejects(400, 0, db)
            ELSE IF ~token_data.payload.has_secret THEN Rejects(401, 0, db)
            ELSE IF ~Binds(AuthenticateWithBankParams, BankAuthArguments)
                THEN Rejects(400, 0, db)
            ELSE IF AuthenticateWithBank(auth).raised
                THEN Rejects(AuthenticateWithBank(auth).http_status, 1, db)
            ELSE IF bank \notin Banks THEN Rejects(400, 1, db)
            ELSE IF ~Binds(GetConsentIdByRequestIdParams, RequestIdArguments)
                THEN Rejects(400, 1, db)
            ELSE IF byRequest.raised = "HTTPException"
                THEN Rejects(byRequest.http_status, 2, byRequest.db)
            ELSE IF byRequest.raised # "none" THEN Rejects(400, 2, byRequest.db)
            ELSE Replies(200, byRequest.body, 2, byRequest.db)
        ELSE IF row # NoRow
            THEN Replies(200,
                    [NoBody EXCEPT !.consent_id = consent_id,
                                   !.status = IF row.status # "" THEN row.status
                                              ELSE "authorized"],
                    0, db)
        ELSE IF bank_id # "" /\ tok.held THEN
            \* here every exception but HTTPException gives "authorized"
            IF token_data.status # "ok" THEN authorized(0, db)
            ELSE IF ~token_data.payload.has_secret THEN Rejects(401, 0, db)
            ELSE IF ~Binds(AuthenticateWithBankParams, BankAuthArguments)
                THEN authorized(0, db)
            ELSE IF AuthenticateWithBank(auth).raised
                THEN Rejects(AuthenticateWithBank(auth).http_status, 1, db)
            ELSE IF bank \notin Banks THEN authorized(1, db)
            ELSE IF byStatus.raised = "HTTPException"
                THEN Rejects(byStatus.http_status, 2, byStatus.db)
            ELSE IF byStatus.raised # "none" THEN authorized(2, byStatus.db)
            ELSE Replies(200,
                    [NoBody EXCEPT !.consent_id = consent_id,
                                   !.status = IF byStatus.body.status # ""
                                              THEN byStatus.body.status
                                              ELSE "authorized"],
                    2, byStatus.db)
        ELSE authorized(0, db)

\* GET /api/consents/{consent_id}/status: the token is never decoded, it is
\* sent upstream as the bearer token
RouteGetConsentStatus(db, tok, consent_id, bank_id, resp) ==
    LET response == MakeAuthenticatedRequest(resp)
    IN  IF consent_id = "" \/ bank_id = "" THEN Rejects(400, 0, db)
        ELSE IF ~tok.held THEN Rejects(401, 0, db)
        ELSE IF response.raised # "none"
            THEN Replies(200, [NoBody EXCEPT !.consent_id = consent_id,
                                             !.status = "unknown"], 1, db)
        ELSE Replies(200,
                [NoBody EXCEPT !.consent_id = consent_id,
                               !.status = IF response.body.status # ""
                                          THEN response.body.status ELSE "unknown",
                               !.request_id = response.body.request_id],
                1, db)

\* GET /api/user-consents: a decode error is logged and ignored
ActiveRows(db, user_id) ==
    {r \in db : r.client_id = user_id /\ r.status \in {"approved", "authorized", "success"}}

RouteGetUserConsents(db, tok, user_id) ==
    IF user_id = "" THEN Rejects(400, 0, db)
    ELSE Replies(200, [NoBody EXCEPT !.rows = ActiveRows(db, user_id)], 0, db)

\* DELETE /api/consents/{consent_id}; row, row2 and row3 are what the three
\* look-ups of the consent id give (the route's, the service's, the route's)
RowsOfConsent(db, consent_id) == {r \in db : r.consent_id = consent_id}

RouteRevokeConsent(db, tok, consent_id, bank_id0, client_id0, row, auth, resp, row2, row3) ==
    LET looked == bank_id0 = "" \/ client_id0 = ""
        bank_id == IF bank_id0 = "" /\ looked THEN row.bank_name ELSE bank_id0
        client_id == IF client_id0 = "" /\ looked THEN row.client_id ELSE client_id0
        bank == Lower(bank_id)
        token_data == DecodeToken(tok, now)
        svc == ServiceRevokeConsent(db, bank, consent_id, resp, row2)
        deleted(requests, after) ==
            Replies(200, [NoBody EXCEPT !.status = "success",
                                        !.consent_id = consent_id,
                                        !.deleted = TRUE], requests, after)
    IN  IF consent_id = "" \/ ~tok.held THEN Rejects(400, 0, db)
        ELSE IF looked /\ row = NoRow THEN deleted(0, db)
        ELSE IF bank_id = "" \/ client_id = "" THEN Rejects(400, 0, db)
        ELSE IF bank \notin Banks THEN Rejects(400, 0, db)
        ELSE IF token_data.status # "ok" THEN Rejects(401, 0, db)
        ELSE IF ~token_data.payload.has_secret THEN Rejects(401, 0, db)
        \* TypeError, caught by "except Exception"
        ELSE IF ~Binds(AuthenticateWithBankParams, BankAuthArguments)
            THEN Rejects(503, 0, db)
        ELSE IF AuthenticateWithBank(auth).raised THEN Rejects(503, 1, db)
        ELSE IF svc.raised = "HTTPException"
            THEN IF svc.not_found \/ svc.http_status = 404
                 THEN deleted(2, svc.db \ {row3})
                 ELSE Rejects(svc.http_status, 2, svc.db)
        ELSE IF svc.raised # "none" THEN Rejects(500, 2, svc.db)
        ELSE Replies(200,
                [NoBody EXCEPT !.status = "success", !.consent_id = consent_id],
                2,
                IF row3 # NoRow
                THEN Update(svc.db, row3, [row3 EXCEPT !.status = "revoked"])
                ELSE svc.db)

(***************************************************************************)
(* The calls of the consent specification.  "last" keeps the last call:     *)
(* the operation, what the token it carried decodes to, its reply, the      *)
(* upstream requests it sent, whether it changed the table, and, when the   *)
(* call before it was the same operation on the same consent id, a summary  *)
(* of that call.                                                            *)
(***************************************************************************)
NoPrevious == [op |-> "", http_status |-> 0, accepted |-> FALSE]

NoCall ==
    [op |-> "", http_status |-> 0, body |-> NoBody, requests |-> 0,
     db_changed |-> FALSE, token |-> "", well_formed |-> FALSE,
     bank |-> "", consent_id |-> "", previous |-> NoPrevious]

\* what decode_token makes of the token a request carries
TokenStatus(tok) ==
    IF ~tok.held THEN "absent"
    ELSE IF DecodeToken(tok, now).status # "ok" THEN DecodeToken(tok, now).status
    ELSE IF ~tok.payload.has_secret THEN "no client_secret"
    ELSE "ok"

\* the request carries a token that decodes and holds a client_secret
Accepted(call) == call.token = "ok"

Summary(call, op, consent_id) ==
    IF call.op = op /\ call.consent_id = consent_id /\ consent_id # ""
    THEN [op |-> call.op, http_status |-> call.http_status,
          accepted |-> Accepted(call) /\ call.well_formed]
    ELSE NoPrevious

\* a call of a route: well_formed says that the request's other fields are
\* there and name a bank; bank and consent_id are kept for the operations
\* whose claims need them ("" otherwise)
Completed(op, tok, well_formed, bank, consent_id, reply) ==
    [op |-> op, http_status |-> reply.http_status, body |-> reply.body,
     requests |-> reply.requests, db_changed |-> reply.db # consents,
     token |-> TokenStatus(tok), well_formed |-> well_formed,
     bank |-> bank, consent_id |-> consent_id,
     previous |-> Summary(last, op, consent_id)]

\* a service method called with a bank token
ServiceCompleted(op, bank, svc) ==
    [op |-> op, http_status |-> svc.http_status, body |-> svc.body,
     requests |-> 1, db_changed |-> svc.db # consents,
     token |-> "bank token", well_formed |-> TRUE,
     bank |-> bank, consent_id |-> "", previous |-> NoPrevious]

\* the Authorization header: none, or the session token the caller holds
Carried == {NoSession, session}

\* the table keeps to the model's size
Fits(db) == Cardinality(db) <= MaxRows

Finish(call, db) ==
    /\ Fits(db)
    /\ last' = call
    /\ consents' = db
    /\ UNCHANGED <<now, tokenVars, utc_offset, verify_iat, decoded, advances,
                   dataVars, cacheVars, payVars>>

Authenticate(client_id, client_secret, resp) ==
    /\ ~session.held
    /\ session' = IF AuthenticateWithBank(resp).raised THEN session
                  ELSE RouteAuthenticateToken(client_id, client_secret, resp)
    /\ Finish(Completed("authenticate", NoSession, TRUE, "", "",
                        RouteAuthenticate(consents, client_id, client_secret, resp)),
              consents)

CreateConsent(tok, user_id, bank_id) ==
    \E existing \in First(ApprovedRows(consents, user_id, Lower(bank_id))) :
      LET reached == RouteCreateConsent(consents, tok, user_id, bank_id, existing,
                                        AuthOk, ConsentOk, existing).requests
      IN
      \E auth \in AnswersAt(1, reached, AuthAnswers, AuthOk),
         resp \in AnswersAt(2, reached, CreateAnswers, ConsentOk) :
        LET reply == RouteCreateConsent(consents, tok, user_id, bank_id,
                                        existing, auth, resp, existing)
        IN  /\ Finish(Completed("create_consent", tok,
                                user_id # "" /\ Lower(bank_id) \in Banks,
                                IF Lower(bank_id) \in Banks THEN Lower(bank_id) ELSE "",
                                "", reply), reply.db)
            /\ UNCHANGED session

GetConsentDetails(tok, consent_id, bank_id) ==
    \E row \in First(RowsOfConsent(consents, consent_id)),
       row2 \in First(RowsOfBank(consents, consent_id, Lower(bank_id))) :
      LET reached == RouteGetConsentDetails(consents, tok, consent_id, bank_id,
                                            row, AuthOk, ConsentOk, row2).requests
      IN
      \E auth \in AnswersAt(1, reached, AuthAnswers, AuthOk),
         resp \in AnswersAt(2, reached, StatusAnswers \cup RequestAnswers, ConsentOk) :
        LET reply == RouteGetConsentDetails(consents, tok, consent_id, bank_id,
                                            row, auth, resp, row2)
        IN  /\ Finish(Completed("get_consent_details", tok,
                                Lower(bank_id) \in Banks, "", "", reply), reply.db)
            /\ UNCHANGED session

GetConsentStatus(tok, consent_id, bank_id) ==
    \E resp \in AnswersAt(1,
            RouteGetConsentStatus(consents, tok, consent_id, bank_id, ConsentOk).requests,
            StatusAnswers, ConsentOk) :
    LET reply == RouteGetConsentStatus(consents, tok, consent_id, bank_id, resp)
    IN  /\ Finish(Completed("get_consent_status", tok,
                            Lower(bank_id) \in Banks, "", "", reply), reply.db)
        /\ UNCHANGED session

GetUserConsents(tok, user_id) ==
    LET reply == RouteGetUserConsents(consents, tok, user_id)
    IN  /\ Finish(Completed("get_user_consents", tok, user_id # "", "", "", reply),
                  reply.db)
        /\ UNCHANGED session

RevokeConsent(tok, consent_id, bank_id, client_id) ==
    \E row \in First(RowsOfConsent(consents, consent_id)) :
        LET looked == bank_id = "" \/ client_id = ""
            bank == Lower(IF bank_id = "" /\ looked THEN row.bank_name ELSE bank_id)
            reached == RouteRevokeConsent(consents, tok, consent_id, bank_id,
                                          client_id, row, AuthOk, ConsentOk,
                                          NoRow, NoRow).requests
        IN  \E auth \in AnswersAt(1, reached, AuthAnswers, AuthOk),
               resp \in AnswersAt(2, reached, RevokeAnswers, ConsentOk) :
            \E row2 \in First(RowsOfBank(consents, consent_id, bank)) :
            \E row3 \in First(RowsOfConsent(
                    ServiceRevokeConsent(consents, bank, consent_id, resp, row2).db,
                    consent_id)) :
                LET reply == RouteRevokeConsent(consents, tok, consent_id, bank_id,
                                                client_id, row, auth, resp, row2, row3)
                IN  /\ Finish(Completed("revoke_consent", tok,
                                        client_id # "" /\ Lower(bank_id) \in Banks,
                                        "", consent_id, reply), reply.db)
                    /\ UNCHANGED session

\* BankService methods called with a bank token
BankCreateConsent(bank, client_id, resp) ==
    \E existing \in First(ApprovedRows(consents, client_id, bank)) :
        LET svc == ServiceCreateConsent(consents, bank, client_id, resp, existing)
        IN  /\ Finish(ServiceCompleted("BankService.create_consent", bank, svc),
                   svc.db)
            /\ UNCHANGED session

BankGetConsentStatus(bank, consent_id, resp) ==
    \E row \in First(RowsOfBank(consents, consent_id, bank)) :
        LET svc == ServiceGetConsentStatus(consents, bank, consent_id, resp, row)
        IN  /\ Finish(ServiceCompleted("BankService.get_consent_status", "", svc),
                   svc.db)
            /\ UNCHANGED session

BankGetConsentIdByRequestId(bank, request_id, resp) ==
    \E row \in First(RowsOfBank(consents, resp.consent_id, bank)) :
        LET svc == ServiceGetConsentIdByRequestId(consents, bank, request_id, resp, row)
        IN  /\ Finish(ServiceCompleted("BankService.get_consent_id_by_request_id",
                                       "", svc), svc.db)
            /\ UNCHANGED session

BankRevokeConsent(bank, consent_id, resp) ==
    \E row \in First(RowsOfBank(consents, consent_id, bank)) :
        LET svc == ServiceRevokeConsent(consents, bank, consent_id, resp, row)
        IN  /\ Finish(ServiceCompleted("BankService.revoke_consent", "", svc),
                   svc.db)
            /\ UNCHANGED session

\* the session token's 30 minutes pass
Expire ==
    /\ session.held
    /\ now < JWT_EXPIRY_SECONDS
    /\ Advance(JWT_EXPIRY_SECONDS)

RoutesIdle ==
    /\ consents = {}
    /\ last = NoCall

TokenIdle ==
    /\ token_cache = [c \in ClientIds |-> NoEntry]
    /\ token_locks = {}
    /\ lock_owner = [c \in ClientIds |-> NoTask]
    /\ lock_waiters = [c \in ClientIds |-> <<>>]
    /\ task = [p \in Tasks |-> IdleTask]
    /\ issued = 0

(***************************************************************************)
(* services/bank_service.py: get_accounts and get_transactions             *)
(*                                                                          *)
(* A JSON value is a record of its Python type and its value: a list holds  *)
(* a sequence, a dict a function from its keys.  The bank's account and    *)
(* transaction objects are dicts the gateway does not look into.           *)
(***************************************************************************)
JList(items) == [type |-> "list", val |-> items]

JDict(fields) == [type |-> "dict", val |-> fields]

JString(s) == [type |-> "str", val |-> s]

JNumber(n) == [type |-> "int", val |-> n]

JNull == [type |-> "NoneType", val |-> <<>>]

IsInstance(j, type) == j.type = type

\* key in j, for a dict j
HasKey(j, key) == key \in DOMAIN j.val

\* bool(j)
JTruthy(j) ==
    CASE j.type = "list" -> j.val # <<>>
      [] j.type = "dict" -> DOMAIN j.val # {}
      [] j.type = "str" -> j.val # ""
      [] j.type = "int" -> j.val # 0
      [] OTHER -> FALSE

Account(id) == JDict([accountId |-> JString(id)])

AccountObjects == {Account("acc-1"), Account("acc-2")}

\* the lists of at most MaxItems objects of S
Lists(S) == UNION {[1..n -> S] : n \in 0..MaxItems}

\* the bodies a bank answers GET /accounts with
AccountShapes ==
    {"array", "accounts", "data.account", "accounts.data.account",
     "accounts: null", "accounts: object", "message", "data: {}", "data: array"}

AccountsBody(shape, items) ==
    CASE shape = "array" -> JList(items)
      [] shape = "accounts" -> JDict([accounts |-> JList(items)])
      [] shape = "data.account" -> JDict([data |-> JDict([account |-> JList(items)])])
      [] shape = "accounts.data.account" ->
            JDict([accounts |-> JDict([data |-> JDict([account |-> JList(items)]),
                                       links |-> JDict(<<>>)])])
      [] shape = "accounts: null" -> JDict([accounts |-> JNull])
      [] shape = "accounts: object" -> JDict([accounts |-> Account("acc-1")])
      [] shape = "message" -> JDict([message |-> JString("ok")])
      [] shape = "data: {}" -> JDict([data |-> JDict(<<>>)])
      [] shape = "data: array" -> JDict([data |-> JList(items)])

\* what a data method of the gateway gives: the value it returns, or the
\* exception it raises
DataReturns(value, data) ==
    [raised |-> "", http_status |-> 200, value |-> value, data |-> data]

DataRaises(exception, http_status) ==
    [raised |-> exception, http_status |-> http_status, value |-> <<>>, data |-> JNull]

\* accounts = data.get("accounts", data) if isinstance(data, dict) else data
AccountsOf(data) ==
    IF IsInstance(data, "dict") /\ HasKey(data, "accounts") THEN data.val.accounts
    ELSE data

UnwrapSkipped(accounts) == DataReturns(<<>>, accounts)

\* the VBank structure: accounts.get("data", {}).get("account", [])
Unwrap(accounts) ==
    IF IsInstance(accounts, "dict") /\ HasKey(accounts, "data")
    THEN IF ~IsInstance(accounts.val.data, "dict")
         THEN DataRaises("AttributeError", 0)
         ELSE IF HasKey(accounts.val.data, "account")
              THEN DataReturns(<<>>, accounts.val.data.val.account)
              ELSE DataReturns(<<>>, JList(<<>>))
    ELSE DataReturns(<<>>, accounts)

\* "ensure we have a list"
AsList(accounts) ==
    IF IsInstance(accounts, "list") THEN accounts.val
    ELSE IF JTruthy(accounts) THEN <<accounts>> ELSE <<>>

NormalizeAccounts(data) ==
    LET unwrapped == Unwrap(AccountsOf(data))
    IN  IF unwrapped.raised # "" THEN unwrapped
        ELSE DataReturns(AsList(unwrapped.data), data)

\* the bank's answer to a data request
DataAnswerKinds == {"json", "not json", "RequestError"}

DataStatusCodes == {200, 401, 403, 404, 500}

DataAnswer(kind, status) == [kind |-> kind, status |-> status]

\* the failures need no body: one answer of each kind
DataAnswers ==
    {DataAnswer("json", s) : s \in DataStatusCodes}
        \cup {DataAnswer("not json", 200), DataAnswer("RequestError", 0)}

DataOk(resp) == resp.kind = "json" /\ resp.status = 200

\* params = {"client_id": client_id or "team286"}
DEFAULT_REQUESTING_BANK == "team286"

AccountsRequest(client_id) ==
    [endpoint |-> "/accounts",
     client_id |-> IF client_id # "" THEN client_id ELSE DEFAULT_REQUESTING_BANK]

ServiceGetAccounts(resp, data) ==
    IF resp.kind = "RequestError" THEN DataRaises("HTTPException", 503)
    ELSE IF resp.status = 401 THEN DataRaises("HTTPException", 401)
    ELSE IF resp.status = 403 THEN DataRaises("HTTPException", 403)
    ELSE IF resp.status >= 400 THEN DataRaises("HTTPException", resp.status)
    ELSE IF resp.kind = "not json" THEN DataRaises("JSONDecodeError", 0)
    ELSE NormalizeAccounts(data)

NoFetch ==
    [op |-> "", request |-> [endpoint |-> "", client_id |-> ""], account_id |-> "",
     answer |-> DataAnswer("", 0), shape |-> "", items |-> <<>>,
     result |-> DataRaises("", 0)]

GetAccounts(client_id, resp, shape, items) ==
    /\ DataOk(resp) \/ (shape = "array" /\ items = <<>>)
    /\ fetched' = [op |-> "get_accounts",
                   request |-> AccountsRequest(client_id),
                   account_id |-> "",
                   answer |-> resp,
                   shape |-> shape,
                   items |-> items,
                   result |-> ServiceGetAccounts(resp, AccountsBody(shape, items))]
    /\ UNCHANGED notData

Transaction(id, amount, date) ==
    JDict([transactionId |-> JString(id), amount |-> amount, date |-> date])

TransactionObjects ==
    {Transaction("tx-1", JNumber(100), JString("2024-01-10")),
     Transaction("tx-2", JNumber(900), JString("2024-03-10"))}

\* the bodies a bank answers a transactions request with
TransactionShapes ==
    {"array", "transactions", "data.transaction", "data.transaction: object",
     "data: {}", "data.transaction + transactions", "data: array + transactions",
     "transactions: null", "message", "null"}

TransactionsBody(shape, items) ==
    CASE shape = "array" -> JList(items)
      [] shape = "transactions" -> JDict([transactions |-> JList(items)])
      [] shape = "data.transaction" ->
            JDict([data |-> JDict([transaction |-> JList(items)])])
      [] shape = "data.transaction: object" ->
            JDict([data |-> JDict([transaction |-> Transaction("tx-1", JNumber(100), JNull)])])
      [] shape = "data: {}" -> JDict([data |-> JDict(<<>>)])
      [] shape = "data.transaction + transactions" ->
            JDict([data |-> JDict([transaction |-> JList(<<>>)]),
                   transactions |-> JList(items)])
      [] shape = "data: array + transactions" ->
            JDict([data |-> JList(<<>>), transactions |-> JList(items)])
      [] shape = "transactions: null" -> JDict([transactions |-> JNull])
      [] shape = "message" -> JDict([message |-> JString("ok")])
      [] shape = "null" -> JNull

\* an account id the caller supplied: "account_id and account_id != 'None'"
AccountIdGiven(account_id) == account_id # "" /\ account_id # "None"

EndpointOfClient(account_id) == "/transactions"

TransactionsEndpoint(account_id) ==
    IF AccountIdGiven(account_id)
    THEN "/accounts/{account_id}/transactions"
    ELSE "/transactions"

MAX_LIMIT == 500

Min(a, b) == IF a <= b THEN a ELSE b

TransactionsRequest(account_id, limit) ==
    [endpoint |-> TransactionsEndpoint(account_id),
     account_id |-> IF AccountIdGiven(account_id) THEN account_id ELSE "",
     limit |-> Min(limit, MAX_LIMIT)]

\* the transactions of a body, and the body as it is returned
NormalizeTransactions(data) ==
    IF IsInstance(data, "dict")
    THEN IF HasKey(data, "data") /\ IsInstance(data.val.data, "dict")
         THEN IF HasKey(data.val.data, "transaction")
                    /\ IsInstance(data.val.data.val.transaction, "list")
              THEN DataReturns(data.val.data.val.transaction.val, data)
              ELSE DataReturns(<<>>, data)
         ELSE IF HasKey(data, "transactions")
              THEN IF IsInstance(data.val.transactions, "list")
                   THEN DataReturns(data.val.transactions.val, data)
                   ELSE IF IsInstance(data.val.transactions, "NoneType")
                             \/ IsInstance(data.val.transactions, "int")
                        THEN DataRaises("TypeError", 0)   \* len(transactions)
                        ELSE DataReturns(data.val.transactions, data)
              ELSE DataReturns(<<>>, data)
    ELSE IF IsInstance(data, "list")
         THEN DataReturns(data.val, JDict([transactions |-> data]))
         ELSE DataReturns(<<>>, data)

ServiceGetTransactions(resp, data) ==
    IF resp.kind = "RequestError" THEN DataRaises("HTTPException", 503)
    ELSE IF resp.status = 401 THEN DataRaises("HTTPException", 401)
    ELSE IF resp.status = 403 THEN DataRaises("HTTPException", 403)
    ELSE IF resp.status = 404 THEN DataRaises("HTTPException", 404)
    ELSE IF resp.status >= 400 THEN DataRaises("HTTPException", resp.status)
    ELSE IF resp.kind = "not json" THEN DataRaises("JSONDecodeError", 0)
    ELSE NormalizeTransactions(data)

AccountIdInputs == {"", "None", "acc-1"}

LimitInputs == {50, 600}

GetTransactions(account_id, limit, resp, shape, items) ==
    /\ DataOk(resp) \/ (shape = "array" /\ items = <<>>)
    /\ fetched' = [op |-> "get_transactions",
                   request |-> TransactionsRequest(account_id, limit),
                   account_id |-> account_id,
                   answer |-> resp,
                   shape |-> shape,
                   items |-> items,
                   result |-> ServiceGetTransactions(resp, TransactionsBody(shape, items))]
    /\ UNCHANGED notData

DataIdle == fetched = NoFetch

(***************************************************************************)
(* routes/accounts.py: list_transactions over _tx_cache                     *)
(*                                                                          *)
(* The cache key f"{bank_name}:{client_id}" is the pair of the two headers. *)
(* An entry holds the transactions of the gateway's result and the instant *)
(* the request that fetched them read the clock.  Instants are whole        *)
(* seconds.                                                                 *)
(***************************************************************************)
TX_CACHE_TTL_MINUTES == 15

TX_CACHE_TTL_SECONDS == TX_CACHE_TTL_MINUTES * 60

TxBanks == {"abank", "vbank"}

TxClients == {"team1-1"}

CacheKey(bank_name, client_id) == <<bank_name, client_id>>

CacheKeys == {CacheKey(b, c) : b \in TxBanks, c \in TxClients}

NoCacheEntry == [present |-> FALSE, transactions |-> <<>>, timestamp |-> 0]

CacheEntry(transactions, t) ==
    [present |-> TRUE, transactions |-> transactions, timestamp |-> t]

\* cache_age < TX_CACHE_TTL_MINUTES * 60
CacheFresh(entry, t) == t - entry.timestamp < TX_CACHE_TTL_SECONDS

\* the query parameters of the filter; an absent amount is NoAmount, an
\* absent date ""
NoAmount == -1

Filters(min_amount, max_amount, from_date, to_date) ==
    [min_amount |-> min_amount, max_amount |-> max_amount,
     from_date |-> from_date, to_date |-> to_date]

NoFilters == Filters(NoAmount, NoAmount, "", "")

FilterInputs ==
    {NoFilters,
     Filters(NoAmount, 500, "", ""),
     Filters(NoAmount, NoAmount, "2024-02-01", "")}

\* datetime.fromisoformat: the instant of an ISO date, or ValueError
FromIsoFormat(s) ==
    CASE s = "2024-01-10" -> [raised |-> FALSE, day |-> 20240110]
      [] s = "2024-02-01" -> [raised |-> FALSE, day |-> 20240201]
      [] s = "2024-02-10" -> [raised |-> FALSE, day |-> 20240210]
      [] s = "2024-03-10" -> [raised |-> FALSE, day |-> 20240310]
      [] OTHER -> [raised |-> TRUE, day |-> 0]

\* tx.get("amount", 0) and tx.get("date", "")
TxAmount(tx) == IF HasKey(tx, "amount") THEN tx.val.amount.val ELSE 0

TxDate(tx) == IF HasKey(tx, "date") THEN tx.val.date.val ELSE ""

\* a transaction the bank dates under "bookingDateTime"
BookedTransaction(id, amount, date) ==
    JDict([transactionId |-> JString(id), amount |-> amount, bookingDateTime |-> date])

AmountInRange(tx, f) ==
    /\ f.min_amount = NoAmount \/ TxAmount(tx) >= f.min_amount
    /\ f.max_amount = NoAmount \/ TxAmount(tx) <= f.max_amount

FilterByAmount(transactions, f) ==
    IF f.min_amount # NoAmount \/ f.max_amount # NoAmount
    THEN SelectSeq(transactions, LAMBDA tx : AmountInRange(tx, f))
    ELSE transactions

DateInRange(tx, f) ==
    /\ f.from_date = "" \/ FromIsoFormat(TxDate(tx)).day >= FromIsoFormat(f.from_date).day
    /\ f.to_date = "" \/ FromIsoFormat(TxDate(tx)).day <= FromIsoFormat(f.to_date).day

\* a date that does not parse (a parameter's, or a transaction's) raises
\* ValueError inside the try block: the date filter is skipped as a whole
DateParsingError(transactions, f) ==
    \/ f.from_date # "" /\ FromIsoFormat(f.from_date).raised
    \/ f.to_date # "" /\ FromIsoFormat(f.to_date).raised
    \/ \E i \in 1..Len(transactions) : FromIsoFormat(TxDate(transactions[i])).raised

FilterByDate(transactions, f) ==
    IF f.from_date # "" \/ f.to_date # ""
    THEN IF DateParsingError(transactions, f) THEN transactions
         ELSE SelectSeq(transactions, LAMBDA tx : DateInRange(tx, f))
    ELSE transactions

FilterTransactions(transactions, f) == FilterByDate(FilterByAmount(transactions, f), f)

\* what the bank holds for a client, and what it sends when it applies the
\* "from" and "to" parameters list_transactions passes on
BankHolds(bank_name) ==
    IF bank_name = "vbank"
    THEN <<Transaction("tx-1", JNumber(100), JString("2024-01-10")),
           Transaction("tx-2", JNumber(900), JString("2024-03-10"))>>
    ELSE <<Transaction("tx-1", JNumber(100), JString("2024-01-10")),
           BookedTransaction("tx-3", JNumber(500), JString("2024-02-10"))>>

BookingDay(tx) ==
    IF HasKey(tx, "date") THEN FromIsoFormat(tx.val.date.val).day
    ELSE FromIsoFormat(tx.val.bookingDateTime.val).day

BankSelect(transactions, f) ==
    LET from == FromIsoFormat(f.from_date)
        to == FromIsoFormat(f.to_date)
    IN  SelectSeq(transactions,
                  LAMBDA tx : /\ from.raised \/ BookingDay(tx) >= from.day
                              /\ to.raised \/ BookingDay(tx) <= to.day)

TxShapes == {"data.transaction", "transactions: null"}

TxAnswers ==
    {DataAnswer("json", 200), DataAnswer("json", 401), DataAnswer("json", 500),
     DataAnswer("RequestError", 0)}

TxReply(http_status, transactions, from_cache, cache_age_seconds, auth_requests, requests, entry) ==
    [http_status |-> http_status, transactions |-> transactions,
     from_cache |-> from_cache, cache_age_seconds |-> cache_age_seconds,
     auth_requests |-> auth_requests, requests |-> requests, entry |-> entry]

\* the handler at instant t, with the key's entry, the answers of the
\* bank's token endpoint and of its transactions endpoint
RouteListTransactions(tok, entry, f, t, auth, resp, data) ==
    LET token_data == DecodeToken(tok, t)
        svc == ServiceGetTransactions(resp, data)
        rejects(http_status, auth_requests, requests) ==
            TxReply(http_status, <<>>, FALSE, 0, auth_requests, requests, entry)
        served(auth_requests) ==
            IF entry.present /\ CacheFresh(entry, t)
            THEN TxReply(200, FilterTransactions(entry.transactions, f), TRUE,
                         t - entry.timestamp, auth_requests, 0, entry)
            ELSE IF svc.raised = "HTTPException"
            THEN rejects(svc.http_status, auth_requests, 1)
            ELSE IF svc.raised # "" THEN rejects(500, auth_requests, 1)
            ELSE TxReply(200, FilterTransactions(svc.value, f), FALSE, 0,
                         auth_requests, 1, CacheEntry(svc.value, t))
    IN  IF token_data.status # "ok" THEN rejects(401, 0, 0)
        ELSE IF ~token_data.payload.has_secret
            THEN IF token_data.payload.access_token = "" THEN rejects(401, 0, 0)
                 ELSE served(0)
        ELSE IF ~Binds(AuthenticateWithBankParams, BankAuthArguments)
            THEN rejects(401, 0, 0)
        ELSE IF AuthenticateWithBank(auth).raised
            THEN rejects(AuthenticateWithBank(auth).http_status, 1, 0)
        ELSE served(1)

\* the key's entry as a request finds it
EntryState(entry, t) ==
    IF ~entry.present THEN "none"
    ELSE IF t - entry.timestamp < TX_CACHE_TTL_SECONDS THEN "fresh" ELSE "stale"

\* stored: the call put the gateway's result in the cache under its own
\* instant; unfiltered: that result is all the bank holds for the client
NoListing ==
    [called |-> FALSE, token |-> "", key |-> CacheKey("", ""), filters |-> NoFilters,
     entry |-> "", http_status |-> 0, transactions |-> <<>>, from_cache |-> FALSE,
     cache_age_seconds |-> 0, requests |-> 0, stored |-> FALSE, unfiltered |-> FALSE]

\* the token encode_token gives for the same arguments and no client_secret
WithoutSecret(tok) ==
    [tok EXCEPT !.payload.has_secret = FALSE, !.payload.client_secret = "",
                !.client_secret = None]

\* the tokens a caller of list_transactions presents
Presented == IF session.held THEN {NoSession, session, WithoutSecret(session)}
             ELSE {NoSession}

\* honoured: whether the bank applies the date parameters
ListTransactions(tok, bank_name, client_id, f) ==
    LET key == CacheKey(bank_name, client_id)
        reach == RouteListTransactions(tok, tx_cache[key], f, now, AuthOk,
                                       DataAnswer("json", 200), JList(<<>>))
    IN  \E auth \in AnswersAt(1, reach.auth_requests, AuthAnswers, AuthOk),
           resp \in AnswersAt(1, reach.requests, TxAnswers, DataAnswer("json", 200)) :
        \E honoured \in IF reach.requests >= 1 /\ DataOk(resp) THEN BOOLEAN ELSE {FALSE},
           shape \in IF reach.requests >= 1 /\ DataOk(resp) THEN TxShapes
                     ELSE {"data.transaction"} :
        LET bank_list == BankHolds(bank_name)
            items == IF honoured THEN BankSelect(bank_list, f) ELSE bank_list
            reply == RouteListTransactions(tok, tx_cache[key], f, now, auth, resp,
                                           TransactionsBody(shape, items))
        IN  /\ tx_cache' = [tx_cache EXCEPT ![key] = reply.entry]
            /\ listed' = [called |-> TRUE,
                          token |-> TokenStatus(tok),
                          key |-> key,
                          filters |-> f,
                          entry |-> EntryState(tx_cache[key], now),
                          http_status |-> reply.http_status,
                          transactions |-> reply.transactions,
                          from_cache |-> reply.from_cache,
                          cache_age_seconds |-> reply.cache_age_seconds,
                          requests |-> reply.requests,
                          stored |-> reply.requests = 1 /\ reply.http_status = 200
                                        /\ reply.entry = CacheEntry(items, now),
                          unfiltered |-> reply.requests = 1 /\ reply.http_status = 200
                                            /\ reply.entry.transactions = bank_list]
            /\ UNCHANGED <<listing, notCache>>

(***************************************************************************)
(* list_transactions awaits nothing between its cache check and the call    *)
(* of get_transactions, and nothing between that call's return and the      *)
(* store: two requests interleave at the await of the bank only.  A         *)
(* request that misses keeps the instant it read the clock at and stores    *)
(* under it whatever the cache holds by then.                               *)
(***************************************************************************)
Requests == {"first", "second"}

NoRequest ==
    [pc |-> "idle", token |-> NoSession, key |-> CacheKey("", ""),
     filters |-> NoFilters, current_time |-> 0, auth |-> AuthOk, seen |-> NoCacheEntry,
     concurrent |-> {}, honoured |-> FALSE, shape |-> "", stored |-> NoCacheEntry]

\* the requests that await the bank for the key
Awaiting(key) == {q \in Requests : listing[q].pc = "fetching" /\ listing[q].key = key}

\* the handler up to "await bank_service.get_transactions": it gets there
\* when the token is accepted and the key's entry is absent or stale
BeginListing(r, tok, bank_name, client_id, f) ==
    LET key == CacheKey(bank_name, client_id)
        reach == RouteListTransactions(tok, tx_cache[key], f, now, AuthOk,
                                       DataAnswer("json", 200), JList(<<>>))
    IN  \E auth \in AnswersAt(1, reach.auth_requests, AuthAnswers, AuthOk) :
        /\ listing[r].pc = "idle"
        /\ RouteListTransactions(tok, tx_cache[key], f, now, auth,
                                 DataAnswer("json", 200), JList(<<>>)).requests = 1
        /\ listing' = [listing EXCEPT ![r] =
               [NoRequest EXCEPT !.pc = "fetching", !.token = tok, !.key = key,
                                 !.filters = f, !.current_time = now, !.auth = auth,
                                 !.seen = tx_cache[key],
                                 !.concurrent = Awaiting(key)]]
        /\ UNCHANGED <<tx_cache, listed, notCache>>

\* the bank answers: the handler stores the result under the instant it
\* read at its start and returns, or raises and stores nothing
FinishListing(r, resp, honoured, shape) ==
    LET req == listing[r]
        bank_list == BankHolds(req.key[1])
        items == IF honoured THEN BankSelect(bank_list, req.filters) ELSE bank_list
        reply == RouteListTransactions(req.token, req.seen, req.filters,
                                       req.current_time, req.auth, resp,
                                       TransactionsBody(shape, items))
        written == reply.requests = 1 /\ reply.http_status = 200
    IN  /\ req.pc = "fetching"
        /\ tx_cache' = [tx_cache EXCEPT ![req.key] = IF written THEN reply.entry ELSE @]
        /\ listing' = [listing EXCEPT ![r].pc = "done",
                                      ![r].honoured = honoured,
                                      ![r].shape = shape,
                                      ![r].stored = IF written THEN reply.entry
                                                    ELSE NoCacheEntry]
        /\ UNCHANGED <<listed, notCache>>

\* the clock moves on
TxClockSteps == {TX_CACHE_TTL_SECONDS \div 2}

CacheIdle ==
    /\ tx_cache = [k \in CacheKeys |-> NoCacheEntry]
    /\ listed = NoListing
    /\ listing = [r \in Requests |-> NoRequest]

(***************************************************************************)
(* routes/tax_payments.py over models/tax_payment.py and the payment        *)
(* methods of services/bank_service.py                                      *)
(*                                                                          *)
(* One TaxPayment row.  An error message is the name of the exception it    *)
(* was taken from.  pay_tax's look-up of the account number sits in a       *)
(* try block that swallows every exception and changes only the debtor     *)
(* account of the two requests that follow: it counts as a request here.    *)
(***************************************************************************)
TaxPaymentFields ==
    {"id", "user_id", "tax_period", "tax_amount", "tax_inn", "tax_recipient",
     "tax_recipient_inn", "tax_recipient_kpp", "tax_recipient_account",
     "tax_recipient_bank", "tax_recipient_bik", "payment_purpose", "status",
     "account_id", "bank_name", "consent_id", "payment_id", "payment_date",
     "error_message", "created_at", "updated_at"}

\* an attribute of a TaxPayment can be read or assigned when it is a field
HasField(fields, name) == name \in fields

BankServiceMethods ==
    {"create_consent", "get_consent_status", "get_consent_id_by_request_id",
     "get_accounts", "get_transactions", "revoke_consent", "get_consent_from_db",
     "create_payment_consent", "submit_payment", "get_payment_status"}

HasMethod(methods, name) == name \in methods

NoTaxPayment ==
    [exists |-> FALSE, status |-> "", error_message |-> "", payment_date |-> FALSE,
     bank_name |-> "", account_id |-> "", consent_id |-> "", payment_id |-> ""]

\* the row sync_tax_payments inserts
SyncedTaxPayment == [NoTaxPayment EXCEPT !.exists = TRUE, !.status = "pending"]

\* the bank's answers to POST /payment-consents and POST /payments
\* state is the answer's status, status_key the key it is sent under
PayAnswer(kind, status, id, state) ==
    [kind |-> kind, status |-> status, id |-> id, state |-> state,
     status_key |-> "Status", request_id |-> "", redirect_url |-> FALSE]

\* a payment consent that awaits the client's approval at the bank
PendingPaymentConsent(status_key) ==
    [PayAnswer("json", 200, "", "pending") EXCEPT
        !.status_key = status_key, !.request_id = "req-1", !.redirect_url = TRUE]

PayErrors ==
    {PayAnswer("json", s, "", "") : s \in {401, 403, 500}}
        \cup {PayAnswer("RequestError", 0, "", ""), PayAnswer("not json", 200, "", "")}

PaymentConsentOk == PayAnswer("json", 200, "pc-1", "approved")

PaymentConsentAnswers ==
    {PaymentConsentOk,
     PayAnswer("json", 200, "pc-1", ""),
     PayAnswer("json", 200, "", "approved"),
     PayAnswer("json", 200, "", "pending"),
     [PaymentConsentOk EXCEPT !.status_key = "status"],
     PendingPaymentConsent("Status"),
     PendingPaymentConsent("status")} \cup PayErrors

PaymentStatuses ==
    {"AcceptedSettlementCompleted", "accepted", "completed", "success",
     "rejected", "failed", "pending", "Accepted"}

PaymentOk == PayAnswer("json", 200, "pay-1", "accepted")

PaymentAnswers ==
    {PayAnswer("json", 200, "pay-1", s) : s \in PaymentStatuses \cup {""}}
        \cup PayErrors

\* request_id and redirect_url: what the caller's .get() of these keys gives
PayResult(raised, http_status, id, state) ==
    [raised |-> raised, http_status |-> http_status, id |-> id, state |-> state,
     request_id |-> "", redirect_url |-> FALSE]

\* BankService.create_payment_consent
ServiceCreatePaymentConsent(resp) ==
    IF resp.kind = "RequestError" THEN PayResult("HTTPException", 503, "", "")
    ELSE IF resp.status = 401 THEN PayResult("HTTPException", 401, "", "")
    ELSE IF resp.status >= 400 THEN PayResult("HTTPException", resp.status, "", "")
    ELSE IF resp.kind = "not json" THEN PayResult("JSONDecodeError", 0, "", "")
    ELSE PayResult("", 200, resp.id,
                   IF resp.state # "" /\ resp.status_key = "Status"
                   THEN resp.state ELSE "Authorised")

\* BankService.submit_payment
ServiceSubmitPayment(resp) ==
    IF resp.kind = "RequestError" THEN PayResult("HTTPException", 503, "", "")
    ELSE IF resp.status = 401 THEN PayResult("HTTPException", 401, "", "")
    ELSE IF resp.status = 403 THEN PayResult("HTTPException", 403, "", "")
    ELSE IF resp.status >= 400 THEN PayResult("HTTPException", resp.status, "", "")
    ELSE IF resp.kind = "not json" THEN PayResult("JSONDecodeError", 0, "", "")
    ELSE PayResult("", 200, resp.id,
                   IF resp.state # "" /\ resp.status_key = "Status"
                   THEN resp.state ELSE "AcceptedSettlementCompleted")

\* pay_tax's mapping of the payment status to the row's status
PayTaxStatusOf(payment_status) ==
    IF payment_status \in {"AcceptedSettlementCompleted", "accepted", "completed", "success"}
    THEN "paid"
    ELSE IF payment_status \in {"rejected", "failed"} THEN "failed"
    ELSE "processing"

\* confirm_payment_approval's
ConfirmStatusOf(payment_status) ==
    IF payment_status \in {"AcceptedSettlementCompleted", "accepted", "completed", "success"}
    THEN "paid"
    ELSE IF payment_status \in {"rejected", "failed"} THEN "failed"
    ELSE "processing"

\* the row after the payment's submission
Submitted(rec, payment, status) ==
    [rec EXCEPT !.payment_id = payment.id,
                !.status = status,
                !.payment_date = IF status = "paid" THEN TRUE ELSE @,
                !.error_message = IF status = "failed" THEN "rejected by the bank" ELSE @]

\* "except Exception": the row is marked failed with str(e) and committed
MarkedFailed(rec, exception) ==
    [rec EXCEPT !.status = "failed", !.error_message = exception]

PayReply(http_status, rec, requests) ==
    [http_status |-> http_status, rec |-> rec, requests |-> requests,
     redirect_url |-> FALSE]

\* the reply that hands the bank's approval page to the caller
PayRedirect(rec, requests) ==
    [PayReply(200, rec, requests) EXCEPT !.redirect_url = TRUE]

\* status_from_response.lower()
StatusLower(s) == IF s = "Pending" THEN "pending" ELSE s

\* a mutant: the payment is submitted as soon as the token is decoded, before
\* a payment consent is asked for
RoutePayTaxSubmitsFirst(rec, tok, bank_name, account_id, auth, consent, payment) ==
    LET token_data == DecodeToken(tok, now)
        paid == ServiceSubmitPayment(payment)
    IN  IF ~rec.exists THEN PayReply(404, rec, 0)
        ELSE IF rec.status = "paid" THEN PayReply(400, rec, 0)
        ELSE IF token_data.status # "ok" \/ ~token_data.payload.has_secret
            THEN PayReply(401, rec, 0)
        ELSE IF paid.raised # "" THEN PayReply(500, rec, 4)
        ELSE PayReply(200, Submitted(rec, paid, PayTaxStatusOf(paid.state)), 4)

\* POST /v1/tax-payments/{payment_id}/pay; rec is the row of payment_id
RoutePayTax(rec, tok, bank_name, account_id, auth, consent, payment) ==
    LET token_data == DecodeToken(tok, now)
        consented == ServiceCreatePaymentConsent(consent)
        paid == ServiceSubmitPayment(payment)
        dirty == [rec EXCEPT !.bank_name = bank_name, !.account_id = account_id]
        processing == [dirty EXCEPT !.consent_id = consented.id, !.status = "processing"]
    IN  IF ~rec.exists THEN PayReply(404, rec, 0)
        ELSE IF rec.status = "paid" THEN PayReply(400, rec, 0)
        ELSE IF Lower(bank_name) \notin Banks
            THEN PayReply(500, MarkedFailed(rec, "ValueError"), 0)
        ELSE IF token_data.status # "ok" \/ ~token_data.payload.has_secret
            THEN PayReply(401, rec, 0)
        ELSE IF ~Binds(AuthenticateWithBankParams, BankAuthArguments)
            THEN PayReply(500, MarkedFailed(rec, "TypeError"), 0)
        ELSE IF AuthenticateWithBank(auth).raised
            THEN PayReply(AuthenticateWithBank(auth).http_status, rec, 1)
        ELSE IF consented.raised = "HTTPException"
            THEN PayReply(consented.http_status, rec, 3)
        ELSE IF consented.raised # ""
            THEN PayReply(500, MarkedFailed(rec, consented.raised), 3)
        ELSE IF ~HasField(TaxPaymentFields, "account_identification")
            THEN PayReply(500, MarkedFailed(dirty, "ValueError"), 3)
        ELSE IF StatusLower(consented.state) = "pending" /\ consented.redirect_url
            THEN IF ~HasField(TaxPaymentFields, "payment_request_id")
                 THEN PayReply(500, MarkedFailed(dirty, "ValueError"), 3)
                 ELSE PayRedirect([dirty EXCEPT !.status = "awaiting_payment_approval"], 3)
        ELSE IF consented.id = "" THEN PayReply(500, rec, 3)
        ELSE IF paid.raised = "HTTPException"
            THEN PayReply(paid.http_status, processing, 4)
        ELSE IF paid.raised # ""
            THEN PayReply(500, MarkedFailed(processing, paid.raised), 4)
        ELSE PayReply(200, Submitted(processing, paid, PayTaxStatusOf(paid.state)), 4)

\* the Authorization header of confirm_payment_approval
AuthorizationSchemes == {"none", "raw", "Bearer"}

\* POST /v1/tax-payments/{payment_id}/confirm-payment-approval
RouteConfirmPaymentApproval(rec, scheme, tok, auth, consent, payment) ==
    LET token_data == DecodeToken(tok, now)
        \* get_payment_consent_after_approval is not a method of BankService;
        \* its result is taken to be create_payment_consent's
        consented == ServiceCreatePaymentConsent(consent)
        paid == ServiceSubmitPayment(payment)
        processing == [rec EXCEPT !.consent_id = consented.id, !.status = "processing"]
    IN  IF scheme # "Bearer" THEN PayReply(401, rec, 0)
        ELSE IF ~rec.exists THEN PayReply(404, rec, 0)
        ELSE IF ~HasField(TaxPaymentFields, "payment_request_id")
            THEN PayReply(500, MarkedFailed(rec, "AttributeError"), 0)
        ELSE IF rec.bank_name = "" THEN PayReply(400, rec, 0)
        ELSE IF Lower(rec.bank_name) \notin Banks
            THEN PayReply(500, MarkedFailed(rec, "ValueError"), 0)
        ELSE IF token_data.status # "ok" \/ ~token_data.payload.has_secret
            THEN PayReply(401, rec, 0)
        ELSE IF ~Binds(AuthenticateWithBankParams, BankAuthArguments)
            THEN PayReply(500, MarkedFailed(rec, "TypeError"), 0)
        ELSE IF AuthenticateWithBank(auth).raised
            THEN PayReply(AuthenticateWithBank(auth).http_status, rec, 1)
        ELSE IF ~HasMethod(BankServiceMethods, "get_payment_consent_after_approval")
            THEN PayReply(500, MarkedFailed(rec, "AttributeError"), 1)
        ELSE IF consented.raised = "HTTPException"
            THEN PayReply(consented.http_status, rec, 2)
        ELSE IF consented.raised # ""
            THEN PayReply(500, MarkedFailed(rec, consented.raised), 2)
        ELSE IF consented.id = "" THEN PayReply(500, rec, 2)
        ELSE IF ~HasField(TaxPaymentFields, "account_identification")
            THEN PayReply(500, MarkedFailed(processing, "AttributeError"), 2)
        ELSE IF paid.raised = "HTTPException"
            THEN PayReply(paid.http_status, processing, 3)
        ELSE IF paid.raised # ""
            THEN PayReply(500, MarkedFailed(processing, paid.raised), 3)
        ELSE PayReply(200, Submitted(processing, paid, ConfirmStatusOf(paid.state)), 3)

NoPay ==
    [op |-> "", token |-> "", authorized |-> FALSE, bank_name |-> "",
     before |-> NoTaxPayment, auth |-> AuthOk, consent |-> PaymentConsentOk,
     payment |-> PaymentOk, http_status |-> 0, requests |-> 0,
     redirect_url |-> FALSE, result |-> PayResult("", 0, "", "")]

NoMapping == [handler |-> "", input |-> "", output |-> ""]

PayBankNames == {"vbank", "xbank"}

\* POST /v1/tax-payments/sync, for a period that has no row yet
SyncTaxPayments ==
    /\ ~tax_payment.exists
    /\ tax_payment' = SyncedTaxPayment
    /\ UNCHANGED <<pay, mapped, notPay>>

PayTax(tok, bank_name, account_id) ==
    LET reached == RoutePayTax(tax_payment, tok, bank_name, account_id, AuthOk,
                               PaymentConsentOk, PaymentOk).requests
    IN  \E auth \in AnswersAt(1, reached, AuthAnswers, AuthOk),
           consent \in AnswersAt(3, reached, PaymentConsentAnswers, PaymentConsentOk),
           payment \in AnswersAt(4, reached, PaymentAnswers, PaymentOk) :
        LET reply == RoutePayTax(tax_payment, tok, bank_name, account_id, auth,
                                 consent, payment)
        IN  /\ tax_payment' = reply.rec
            /\ pay' = [op |-> "pay_tax",
                       token |-> TokenStatus(tok),
                       authorized |-> TRUE,
                       bank_name |-> bank_name,
                       before |-> tax_payment,
                       auth |-> auth,
                       consent |-> consent,
                       payment |-> payment,
                       http_status |-> reply.http_status,
                       requests |-> reply.requests,
                       redirect_url |-> reply.redirect_url,
                       result |-> NoPay.result]
            /\ UNCHANGED <<mapped, notPay>>

ConfirmPaymentApproval(scheme, tok) ==
    LET reached == RouteConfirmPaymentApproval(tax_payment, scheme, tok, AuthOk,
                                               PaymentConsentOk, PaymentOk).requests
    IN  \E auth \in AnswersAt(1, reached, AuthAnswers, AuthOk),
           consent \in AnswersAt(2, reached, PaymentConsentAnswers, PaymentConsentOk),
           payment \in AnswersAt(3, reached, PaymentAnswers, PaymentOk) :
        LET reply == RouteConfirmPaymentApproval(tax_payment, scheme, tok, auth,
                                                 consent, payment)
        IN  /\ tax_payment' = reply.rec
            /\ pay' = [op |-> "confirm_payment_approval",
                       token |-> TokenStatus(tok),
                       authorized |-> scheme = "Bearer",
                       bank_name |-> tax_payment.bank_name,
                       before |-> tax_payment,
                       auth |-> auth,
                       consent |-> consent,
                       payment |-> payment,
                       http_status |-> reply.http_status,
                       requests |-> reply.requests,
                       redirect_url |-> reply.redirect_url,
                       result |-> NoPay.result]
            /\ UNCHANGED <<mapped, notPay>>

\* BankService(bank).create_payment_consent and submit_payment called with a
\* bank token
BankCreatePaymentConsent(bank, resp) ==
    LET svc == ServiceCreatePaymentConsent(resp)
    IN  /\ pay' = [NoPay EXCEPT !.op = "BankService.create_payment_consent",
                                !.bank_name = bank, !.consent = resp,
                                !.http_status = svc.http_status,
                                !.requests = 1, !.result = svc]
        /\ UNCHANGED <<tax_payment, mapped, notPay>>

BankSubmitPayment(bank, resp) ==
    LET svc == ServiceSubmitPayment(resp)
    IN  /\ pay' = [NoPay EXCEPT !.op = "BankService.submit_payment",
                                !.bank_name = bank, !.payment = resp,
                                !.http_status = svc.http_status,
                                !.requests = 1, !.result = svc]
        /\ UNCHANGED <<tax_payment, mapped, notPay>>

\* the two handlers' mappings on their own, over the statuses a bank sends
MapPaymentStatus(handler, payment_status) ==
    /\ mapped' = [handler |-> handler,
                  input |-> payment_status,
                  output |-> IF handler = "pay_tax" THEN PayTaxStatusOf(payment_status)
                             ELSE ConfirmStatusOf(payment_status)]
    /\ UNCHANGED <<tax_payment, pay, notPay>>

PayIdle ==
    /\ tax_payment = NoTaxPayment
    /\ pay = NoPay
    /\ mapped = NoMapping

(***************************************************************************)
(* The specifications.                                                      *)
(***************************************************************************)
InitToken ==
    /\ now = 0
    /\ TokenIdle
    /\ utc_offset = 0
    /\ verify_iat = TRUE
    /\ CodecIdle
    /\ RoutesIdle
    /\ DataIdle
    /\ CacheIdle
    /\ PayIdle

NextToken ==
    \/ \E p \in Tasks, c \in ClientIds, s \in SecretInputs : Call(p, c, s)
    \/ \E p \in Tasks, c \in ClientIdInputs, s \in SecretInputs : CallRejected(p, c, s)
    \/ \E p \in Tasks : AcquireLock(p)
    \/ \E p \in Tasks, resp \in UpstreamAnswers : UpstreamRespond(p, resp)
    \/ \E c \in ClientIds : GetCachedToken(c)
    \/ Tick

SpecToken == InitToken /\ [][NextToken]_vars

\* authenticate_team called with both credentials, under the scheduling of
\* the event loop: a caller the lock's release has woken is resumed, and
\* the upstream request of a caller ends (httpx answers, or gives up after
\* its timeout of 10 s)
NextLock ==
    \/ \E p \in Tasks, c \in ClientIds : Call(p, c, "secret")
    \/ \E p \in Tasks : AcquireLock(p)
    \/ \E p \in Tasks, resp \in UpstreamAnswers : UpstreamRespond(p, resp)

FairLock ==
    \A p \in Tasks :
        /\ WF_vars(AcquireLock(p))
        /\ WF_vars(\E resp \in UpstreamAnswers : UpstreamRespond(p, resp))

SpecLock == InitToken /\ [][NextLock]_vars /\ FairLock

InitCodec ==
    /\ now = 0
    /\ utc_offset \in UtcOffsets
    /\ verify_iat \in BOOLEAN
    /\ CodecIdle
    /\ TokenIdle
    /\ RoutesIdle
    /\ DataIdle
    /\ CacheIdle
    /\ PayIdle

NextCodec ==
    \/ \E a \in BankTokens, c \in CodecClientIds, e \in BankExpiresIn,
          b \in BankExpiresInOverride, s \in CodecSecrets : Encode(a, c, e, b, s)
    \/ Decode
    \/ Forge
    \/ \E d \in ClockSteps : Advance(d)

SpecCodec == InitCodec /\ [][NextCodec]_vars

\* the consent specification runs the process in UTC (SpecCodec has the
\* other time zones)
InitRoutes ==
    /\ now = 0
    /\ utc_offset = 0
    /\ verify_iat = TRUE
    /\ CodecIdle
    /\ TokenIdle
    /\ RoutesIdle
    /\ DataIdle
    /\ CacheIdle
    /\ PayIdle

NextRoutes ==
    \/ \E c \in RouteClientIds, s \in SecretInputs, resp \in AuthAnswers :
          Authenticate(c, s, resp)
    \/ \E tok \in Carried, u \in UserIdInputs, b \in BankIdInputs :
          CreateConsent(tok, u, b)
    \/ \E tok \in Carried, id \in ConsentIdInputs, b \in BankIdInputs :
          GetConsentDetails(tok, id, b)
    \/ \E tok \in Carried, id \in ConsentIdInputs, b \in BankIdInputs :
          GetConsentStatus(tok, id, b)
    \/ \E tok \in Carried, u \in UserIdInputs : GetUserConsents(tok, u)
    \/ \E tok \in Carried, id \in ConsentIdInputs, b \in BankIdInputs,
          u \in UserIdInputs : RevokeConsent(tok, id, b, u)
    \/ \E b \in Banks, u \in UserIds, resp \in CreateAnswers :
          BankCreateConsent(b, u, resp)
    \/ Forge
    \/ Expire

SpecRoutes == InitRoutes /\ [][NextRoutes]_vars

\* the BankService methods on their own, called with a bank token
NextBank ==
    \/ \E b \in Banks, u \in UserIds, resp \in CreateAnswers :
          BankCreateConsent(b, u, resp)
    \/ \E b \in Banks, id \in ConsentIdInputs, resp \in StatusAnswers :
          BankGetConsentStatus(b, id, resp)
    \/ \E b \in Banks, id \in BankRequestIds, resp \in RequestAnswers :
          BankGetConsentIdByRequestId(b, id, resp)
    \/ \E b \in Banks, id \in ConsentIdInputs, resp \in RevokeAnswers :
          BankRevokeConsent(b, id, resp)

SpecBank == InitRoutes /\ [][NextBank]_vars

\* consents being created at a bank and their status polled
NextPoll ==
    \/ \E b \in Banks, u \in UserIds, resp \in CreateAnswers :
          BankCreateConsent(b, u, resp)
    \/ \E b \in Banks, id \in ConsentIdInputs, resp \in StatusAnswers :
          BankGetConsentStatus(b, id, resp)

SpecPoll == InitRoutes /\ [][NextPoll]_vars

\* the data methods of the gateway on their own, over the bodies a bank
\* may answer with
NextData ==
    \/ \E c \in {"", "team1-1"}, resp \in DataAnswers, shape \in AccountShapes,
          items \in Lists(AccountObjects) : GetAccounts(c, resp, shape, items)
    \/ \E a \in AccountIdInputs, n \in LimitInputs, resp \in DataAnswers,
          shape \in TransactionShapes, items \in Lists(TransactionObjects) :
          GetTransactions(a, n, resp, shape, items)

SpecData == InitRoutes /\ [][NextData]_vars

\* list_transactions, called with the token the authenticate route issued,
\* with one issued without a client_secret, or with none
NextCache ==
    \/ \E s \in {Some("secret")} : Encode("bank-token", "team1", 3600, 0, s)
    \/ \E tok \in Presented, b \in TxBanks, c \in TxClients, f \in FilterInputs :
          ListTransactions(tok, b, c, f)
    \/ \E d \in TxClockSteps : Advance(d)

SpecCache == InitRoutes /\ [][NextCache]_vars

\* two list_transactions requests that may overlap at the bank
NextRace ==
    \/ \E s \in {Some("secret")} : Encode("bank-token", "team1", 3600, 0, s)
    \/ \E r \in Requests, tok \in Presented, b \in TxBanks, c \in TxClients,
          f \in FilterInputs : BeginListing(r, tok, b, c, f)
    \/ \E r \in Requests, resp \in TxAnswers, honoured \in BOOLEAN, shape \in TxShapes :
          FinishListing(r, resp, honoured, shape)
    \/ \E d \in TxClockSteps : Advance(d)

SpecRace == InitRoutes /\ [][NextRace]_vars

\* the tax payment routes, called with the token the authenticate route
\* issued, with one issued without a client_secret, or with none
NextPay ==
    \/ \E s \in {Some("secret")} : Encode("bank-token", "team1", 3600, 0, s)
    \/ SyncTaxPayments
    \/ \E tok \in Presented, b \in PayBankNames : PayTax(tok, b, "acc-1")
    \/ \E scheme \in AuthorizationSchemes, tok \in Presented :
          ConfirmPaymentApproval(scheme, tok)
    \/ \E h \in {"pay_tax", "confirm_payment_approval"}, st \in PaymentStatuses :
          MapPaymentStatus(h, st)
    \/ Forge
    \/ Expire

SpecPay == InitRoutes /\ [][NextPay]_vars

\* the payment methods of BankService on their own, called with a bank token
NextPayBank ==
    \/ \E b \in Banks, resp \in PaymentConsentAnswers : BankCreatePaymentConsent(b, resp)
    \/ \E b \in Banks, resp \in PaymentAnswers : BankSubmitPayment(b, resp)
    \/ \E h \in {"pay_tax", "confirm_payment_approval"}, st \in PaymentStatuses :
          MapPaymentStatus(h, st)

SpecPayBank == InitRoutes /\ [][NextPayBank]_vars

(***************************************************************************)
(* Claims about the token cache                                             *)
(***************************************************************************)
Done(p) == task[p].pc = "done"
Succeeded(p) == Done(p) /\ task[p].result.kind = "ok"
\* the call authenticated upstream and stored the token
Fresh(p) == Succeeded(p) /\ task[p].requests = 1

\* C1: for every client id, when a call has succeeded and a second call (with
\* both credentials) for the same client id starts before the expiry the first
\* one stored, the second returns the identical token and sends no upstream
\* request: the two calls send exactly one upstream request in total.
C1_SecondCallUsesCache ==
    \A p, q \in Tasks :
        ( /\ p # q
          /\ Succeeded(p)
          /\ Done(q) /\ task[q].valid
          /\ p \in task[q].earlier
          /\ task[q].current_time < task[p].used.expires_at )
        => /\ task[q].result.kind = "ok"
           /\ task[q].result.token = task[p].result.token
           /\ task[q].requests = 0
           /\ Fresh(p) => task[p].requests + task[q].requests = 1

C1_Witness ==
    \E p, q \in Tasks :
        /\ p # q
        /\ Fresh(p)
        /\ Done(q) /\ task[q].valid
        /\ p \in task[q].earlier
        /\ task[q].current_time < task[p].used.expires_at
        /\ task[q].result.token = task[p].result.token
        /\ task[q].requests = 0

\* C2 as claimed: calls for one client id that run concurrently with no live
\* cache entry send exactly one upstream request between them and all return
\* the same token.
C2_ConcurrentCallsOneRequest ==
    \A p, q \in Tasks :
        (p # q /\ Done(p) /\ Done(q) /\ p \in task[q].concurrent)
        => /\ task[p].requests + task[q].requests = 1
           /\ Succeeded(p) /\ Succeeded(q)
           /\ task[p].result.token = task[q].result.token

\* C2 as amended: the per-client lock lets at most one call per client id have
\* an upstream request in flight; a call that waited re-checks the cache with
\* the time it read at its start, and returns the cached token without an
\* upstream request exactly when that entry is live for that time; so a waiter
\* shares the token and the single request of the call it waited for when that
\* call succeeded, stored an expiry after the waiter's start time, and its
\* entry is still cached at the re-check.
C2_WaitersCollapse ==
    /\ \A c \in ClientIds :
          Cardinality({p \in Tasks : task[p].pc = "upstream"
                                     /\ task[p].client_id = c}) <= 1
    /\ \A q \in Tasks :
          (Done(q) /\ task[q].waited)
          => IF CacheLive(task[q].seen, task[q].current_time)
             THEN /\ task[q].result.kind = "ok"
                  /\ task[q].result.token = task[q].seen.token
                  /\ task[q].requests = 0
             ELSE task[q].requests = 1
    /\ \A p, q \in Tasks :
          ( /\ p # q /\ Fresh(p) /\ Done(q)
            /\ p \in task[q].concurrent
            /\ task[q].seen = task[p].used
            /\ task[q].current_time < task[p].used.expires_at )
          => /\ task[q].result.token = task[p].result.token
             /\ task[p].requests + task[q].requests = 1

C2_Witness ==
    \E p, q \in Tasks :
        /\ p # q /\ Fresh(p) /\ Done(q)
        /\ p \in task[q].concurrent
        /\ task[q].waited
        /\ task[q].seen = task[p].used
        /\ task[q].requests = 0
        /\ task[q].result.token = task[p].result.token

\* C3 as claimed: a successful upstream authentication stores the token with
\* expires_at = now + expires_in - 300, and every successful call, fresh or
\* served from the cache, returns the seconds remaining until the stored expiry.
C3_ReturnsRemainingSeconds ==
    \A p \in Tasks :
        Succeeded(p)
        => /\ task[p].result.expires_in =
                  task[p].used.expires_at - task[p].current_time
           /\ Fresh(p) =>
                  /\ task[p].used.expires_at =
                         task[p].current_time + ExpiresInOf(task[p].answer)
                             - SAFETY_MARGIN
                  /\ task[p].used.token = task[p].result.token

\* C4 as claimed: every upstream failure becomes one of three outcomes, 401
\* for an upstream 401, 400 for an upstream 400, 503 for an upstream 5xx, a
\* timeout or a connection failure, and no raw transport exception leaves
\* authenticate_team.
C4_FailuresMapped ==
    \A p \in Tasks :
        (Done(p) /\ task[p].requests = 1 /\ ~ResponseAccepted(task[p].answer))
        => LET a == task[p].answer
               r == task[p].result
           IN /\ r.raised = "HTTPException"
              /\ r.http_status \in {400, 401, 503}
              /\ (a.transport = "http" /\ a.status = 401) => r.http_status = 401
              /\ (a.transport = "http" /\ a.status = 400) => r.http_status = 400
              /\ (a.transport # "http" \/ a.status >= 500) => r.http_status = 503

(***************************************************************************)
(* Claims about the session token codec (SpecCodec)                         *)
(***************************************************************************)

\* C7: a token signed by encode_token and decoded before its expiry, 30
\* minutes after its issue, gives back the client_id it was issued for, and
\* the client_secret exactly when one was supplied; decoded at or after the
\* expiry it fails with ExpiredSignatureError.
C7_RoundTrip ==
    (decoded.done /\ decoded.token.key = JWT_SECRET)
    => IF decoded.at < decoded.token.issued_at + JWT_EXPIRY_SECONDS
       THEN /\ decoded.status = "ok"
            /\ decoded.payload.client_id = decoded.token.client_id
            /\ decoded.payload.has_secret = Truthy(decoded.token.client_secret)
            /\ decoded.payload.has_secret
               => decoded.payload.client_secret = decoded.token.client_secret.value
       ELSE decoded.status = "ExpiredSignatureError"

\* C8: every token encode_token issues has exp - iat = 1800 seconds with
\* iat the instant of issue, whatever the bank token's expires_in and
\* bank_token_expires_in are.
C8_FixedLifetime ==
    session.held
    => /\ session.payload.exp - session.payload.iat = JWT_EXPIRY_SECONDS
       /\ session.payload.iat = session.issued_at

(***************************************************************************)
(* Claims about the consent endpoints (SpecRoutes)                          *)
(***************************************************************************)
TokenRoutes ==
    {"create_consent", "get_consent_details", "get_consent_status",
     "get_user_consents", "revoke_consent"}

\* C5: a create_consent call that returns gives, for an auto-approval bank,
\* status "authorized" with a non-empty consent_id, and for a manual-approval
\* bank status "awaiting_authorization" with a request_id and a redirect_url
\* that carries that request_id; for each of abank, sbank and vbank.
C5_CreateConsentOutcome ==
    ( /\ last.op \in {"create_consent", "BankService.create_consent"}
      /\ last.http_status = 200
      /\ last.bank \in Banks )
    => IF last.bank \in AutoApprovalBanks
       THEN /\ last.body.status = "authorized"
            /\ last.body.consent_id # ""
       ELSE /\ last.body.status = "awaiting_authorization"
            /\ last.body.request_id # ""
            /\ last.body.redirect_url.present
            /\ last.body.redirect_url.request_id = last.body.request_id

\* C6: when the same consent_id is revoked twice (two well-formed requests
\* with a valid session token), the first call succeeds and the second call
\* succeeds too and leaves no row for that consent_id in the table.
C6_RevokeTwice ==
    ( /\ last.op = "revoke_consent"
      /\ last.previous.op = "revoke_consent"
      /\ last.previous.accepted
      /\ Accepted(last) /\ last.well_formed )
    => /\ last.previous.http_status = 200
       /\ last.http_status = 200
       /\ RowsOfConsent(consents, last.consent_id) = {}

\* C9: the expires_in of a successful authenticate response is the session
\* token's lifetime, 1800 seconds.
C9_SessionTtlReturned ==
    (last.op = "authenticate" /\ last.http_status = 200)
    => last.body.expires_in = JWT_EXPIRY_SECONDS

\* C10: a request to an endpoint that takes a session token, carrying a
\* token that is expired or invalid, is rejected (401; 400 when the request
\* is malformed besides) and the handler sends no upstream request and
\* changes no row.
C10_ExpiredTokenRejected ==
    ( /\ last.op \in TokenRoutes
      /\ last.token \in {"ExpiredSignatureError", "InvalidTokenError"} )
    => /\ last.http_status \in (IF last.well_formed THEN {401} ELSE {400, 401})
       /\ last.requests = 0
       /\ ~last.db_changed

(***************************************************************************)
(* The gateway's data methods (SpecData).                                   *)
(***************************************************************************)
\* the three bodies that carry a list of objects as the banks send it
ArrayShapes == {"array", "accounts", "data.account"}

TransactionArrayShapes == {"array", "transactions", "data.transaction"}

\* C11: get_accounts returns the list of account objects the bank sent,
\* whether the body is the bare array, {accounts: [...]} or
\* {data: {account: [...]}}: the three bodies of the same accounts give the
\* same flat list.
C11_SameAccountsForThreeShapes ==
    (fetched.op = "get_accounts" /\ DataOk(fetched.answer)
        /\ fetched.shape \in ArrayShapes)
    => (fetched.result.raised = "" /\ fetched.result.value = fetched.items)

C11_Witness ==
    /\ fetched.op = "get_accounts"
    /\ fetched.shape = "data.account"
    /\ Len(fetched.items) = 2
    /\ fetched.result.value = fetched.items

\* C12: get_transactions returns the list of transactions the bank sent,
\* whether the body is the bare list, {transactions: [...]} or
\* {data: {transaction: [...]}}; it asks /accounts/{id}/transactions when
\* an account id is supplied and /transactions when none is.
C12_SameTransactionsAndEndpoint ==
    fetched.op = "get_transactions"
    => /\ (DataOk(fetched.answer) /\ fetched.shape \in TransactionArrayShapes)
            => (fetched.result.raised = "" /\ fetched.result.value = fetched.items)
       /\ fetched.account_id = ""
            => fetched.request.endpoint = "/transactions"
       /\ fetched.account_id \notin {"", "None"}
            => /\ fetched.request.endpoint = "/accounts/{account_id}/transactions"
               /\ fetched.request.account_id = fetched.account_id

C12_Witness ==
    /\ fetched.op = "get_transactions"
    /\ fetched.shape = "data.transaction"
    /\ fetched.account_id = "acc-1"
    /\ Len(fetched.items) = 2
    /\ fetched.result.value = fetched.items
    /\ fetched.request.endpoint = "/accounts/{account_id}/transactions"

(***************************************************************************)
(* The transaction cache (SpecCache).                                       *)
(***************************************************************************)
\* the request carries a session token that decodes
ValidListing == listed.called /\ listed.token \in {"ok", "no client_secret"}

\* C13: a list_transactions request for a key whose entry is younger than
\* the TTL returns from_cache = true with cache_age_seconds >= 0 and sends
\* no transactions request; one that finds the entry older sends exactly one
\* and, when the bank answers, returns from_cache = false and replaces the
\* entry by the result.
C13_CacheWithinTtl ==
    ValidListing
    => /\ listed.entry = "fresh"
            => /\ listed.http_status = 200
               /\ listed.from_cache
               /\ listed.cache_age_seconds >= 0
               /\ listed.requests = 0
       /\ listed.entry = "stale"
            => /\ listed.requests = 1
               /\ ~listed.from_cache
               /\ listed.http_status = 200 => listed.stored

\* the filtering the parameters ask for: the transactions whose amount and
\* whose day are within the ranges
ClaimedFilter(transactions, f) ==
    SelectSeq(transactions,
              LAMBDA tx :
                /\ AmountInRange(tx, f)
                /\ f.from_date = "" \/ BookingDay(tx) >= FromIsoFormat(f.from_date).day
                /\ f.to_date = "" \/ BookingDay(tx) <= FromIsoFormat(f.to_date).day)

\* C14: the entry of a key holds the unfiltered list; requests with
\* different filter parameters within the TTL are served from that one
\* entry, each getting the entry's list filtered by its own amount and date
\* ranges.
C14_FilterAfterCache ==
    ValidListing
    => /\ listed.entry = "fresh" => (listed.from_cache /\ listed.requests = 0)
       /\ listed.stored => listed.unfiltered
       /\ listed.http_status = 200
            => listed.transactions
                 = ClaimedFilter(tx_cache[listed.key].transactions, listed.filters)

(***************************************************************************)
(* The consent flows (SpecRoutes, SpecBank).                                *)
(***************************************************************************)
\* C15: the manual-approval flow completes.  Its steps are a creation that
\* returns the request id and polls of that id by a caller with a valid
\* session token: such a call fails only when the bank, asked, fails (a call
\* that asks the bank nothing is answered 200), and a poll that reports
\* "authorized" gives the bank's consent id in place of the request id.
C15_ManualFlowCompletes ==
    ( /\ last.op \in {"create_consent", "get_consent_details"}
      /\ Accepted(last) /\ last.well_formed )
    => /\ last.requests = 0 => last.http_status = 200
       /\ (last.op = "get_consent_details" /\ last.body.status = "authorized")
            => last.body.consent_id \in BankConsentIds

\* a pay_tax call the bank serves in full: a pending row, the token the
\* authenticate route issued, a bank of BANK_URLS, a bank token, an approved
\* payment consent that has an id
AutoApprovalPayment ==
    /\ pay.op = "pay_tax"
    /\ pay.before.exists
    /\ pay.before.status = "pending"
    /\ pay.token = "ok"
    /\ Lower(pay.bank_name) \in Banks
    /\ pay.auth = AuthOk
    /\ pay.consent = PaymentConsentOk

\* C16: a pay_tax call for a pending tax payment, for which the bank approves
\* the payment consent with a consent_id and answers the payment with an
\* accepted or completed status, leaves the row with status 'paid' and its
\* payment_date set.
C16_AutoApprovalPaid ==
    ( /\ AutoApprovalPayment
      /\ pay.payment.kind = "json" /\ pay.payment.status = 200
      /\ pay.payment.state \in {"accepted", "completed"} )
    => /\ tax_payment.status = "paid"
       /\ tax_payment.payment_date

\* C17: a call of pay_tax or confirm_payment_approval for an unpaid tax
\* payment that ends in an error leaves the row with status 'failed' and a
\* captured error message, never with 'processing'.
C17_FailureMarksFailed ==
    ( /\ pay.op \in {"pay_tax", "confirm_payment_approval"}
      /\ pay.authorized
      /\ pay.before.exists
      /\ pay.before.status # "paid"
      /\ pay.http_status # 200 )
    => /\ tax_payment.status = "failed"
       /\ tax_payment.error_message # ""

\* the mapping as the specification words it
ClaimedStatusOf(payment_status) ==
    IF payment_status \in {"accepted", "completed", "success"} THEN "paid"
    ELSE IF payment_status \in {"rejected", "failed"} THEN "failed"
    ELSE "processing"

\* C18: the status submit_payment returns is mapped to the row's status as
\* accepted / completed / success -> paid, rejected / failed -> failed, any
\* other value -> processing, by pay_tax and by confirm_payment_approval
\* alike, and a served pay_tax call leaves the row with the mapped status.
C18_StatusMapping ==
    /\ mapped.handler # "" => mapped.output = ClaimedStatusOf(mapped.input)
    /\ ( /\ AutoApprovalPayment
         /\ pay.payment.kind = "json" /\ pay.payment.status = 200
         /\ pay.payment.state # "" )
       => tax_payment.status = ClaimedStatusOf(pay.payment.state)

\* the bank's answer for a consent it does not know
ConsentNotFound == ConsentError(404, FALSE)

\* C19: when the bank answers a consent check (the status check or the
\* resolution of a request id) with 404, the local record of that consent is
\* deleted and the call ends without an error: for every record of the
\* table, either check of it that the bank answers with 404 returns and
\* leaves a table without the record.
C19_NotFoundDeletesStale ==
    \A row \in consents :
        LET byStatus == ServiceGetConsentStatus(consents, row.bank_name,
                            row.consent_id, ConsentNotFound, row)
            byRequest == ServiceGetConsentIdByRequestId(consents, row.bank_name,
                            row.request_id, ConsentNotFound, row)
        IN  /\ byStatus.raised = "none" /\ row \notin byStatus.db
            /\ byRequest.raised = "none" /\ row \notin byRequest.db

\* the records that stand for a granted consent of the bank for the client
AuthorizedRows(db, client_id, bank) ==
    {r \in db : /\ r.client_id = client_id /\ r.bank_name = bank
                /\ r.status \in {"approved", "authorized"}}

\* C20: a consent creation for a (bank, client) that has an authorized
\* consent returns that consent, sends no upstream request and leaves the
\* table as it was; one for a (bank, client) that has none asks the bank
\* to create the consent and stores the result.
C20_ExistingConsentReused ==
    [][ \A u \in UserIds :
          ( /\ last'.op = "create_consent"
            /\ last' # last
            /\ Accepted(last') /\ last'.well_formed )
          => IF AuthorizedRows(consents, u, last'.bank) # {}
             THEN /\ last'.http_status = 200
                  /\ last'.body.consent_id \in
                        {r.consent_id : r \in AuthorizedRows(consents, u, last'.bank)}
                  /\ last'.requests = 0
                  /\ consents' = consents
             ELSE /\ last'.requests = 2
                  /\ last'.http_status = 200 => consents' # consents ]_vars

\* the records create_consent stored for a request that awaits approval
PendingRows(db) ==
    {r \in db : r.request_id # "" /\ r.status \in {"pending", "awaitingAuthorization"}}

\* the bank's answers that resolve a request id: the approval is complete
ResolvedAnswers ==
    {a \in RequestAnswers : /\ a.transport = "http" /\ a.status = 200 /\ a.json
                            /\ a.consent_id # ""}

\* the status get_consent_id_by_request_id takes from an answer
UpstreamStatus(resp) ==
    IF resp.consent_status # "" THEN resp.consent_status ELSE "authorized"

\* C21: a request-id resolution that the bank answers with the consent id
\* is persisted: the record that was created pending for that request id
\* then carries the bank's consent id and the bank's status, and no record
\* of the request id keeps a placeholder consent id.
C21_ResolutionPersisted ==
    \A row \in PendingRows(consents), resp \in ResolvedAnswers :
        \A found \in First(RowsOfBank(consents, resp.consent_id, row.bank_name)) :
            LET svc == ServiceGetConsentIdByRequestId(consents, row.bank_name,
                            row.request_id, resp, found)
            IN  /\ svc.raised = "none"
                /\ \E r \in svc.db :
                      /\ r.bank_name = row.bank_name /\ r.client_id = row.client_id
                      /\ r.request_id = row.request_id
                      /\ r.consent_id = resp.consent_id
                      /\ r.status = UpstreamStatus(resp)
                /\ \A r \in svc.db :
                      r.request_id = row.request_id
                          => r.consent_id \notin {row.request_id, PendingId(row.request_id)}

\* the bank's answers to a revoke that the specification counts as done
RevokedAnswers ==
    {ConsentAnswer(200, "consent-1", "", "", "revoked", NoUrl), ConsentNotFound}

\* C22: a revoke of a stored consent, sent with the session token and
\* answered by the bank with success or with 404, reports success and leaves
\* no record of the consent id with a status other than 'revoked'; after a
\* 404 the record is gone.
C22_RevokeLeavesNoActiveRecord ==
    TokenStatus(session) = "ok" =>
        \A row \in consents, resp \in RevokedAnswers :
            LET svc == ServiceRevokeConsent(consents, row.bank_name,
                            row.consent_id, resp, row)
            IN  \A row3 \in First(RowsOfConsent(svc.db, row.consent_id)) :
                    LET reply == RouteRevokeConsent(consents, session, row.consent_id,
                                    row.bank_name, row.client_id, row, AuthOk,
                                    resp, row, row3)
                    IN  /\ reply.http_status = 200
                        /\ \A r \in RowsOfConsent(reply.db, row.consent_id) :
                              r.status = "revoked"
                        /\ resp = ConsentNotFound
                              => RowsOfConsent(reply.db, row.consent_id) = {}

\* the statuses that stand for an approved payment consent
ApprovedPaymentStatuses == {"approved", "Authorised", "authorized"}

\* C23: create_payment_consent, answered 200 by the bank, returns an approved
\* status with the consent_id when the bank approved the consent at once,
\* and a pending status with the request_id and the redirect_url when the
\* bank's answer is a consent that awaits the client's approval.
C23_PaymentConsentSplit ==
    ( /\ pay.op = "BankService.create_payment_consent"
      /\ pay.consent.kind = "json" /\ pay.consent.status = 200 )
    => /\ pay.result.raised = ""
       /\ pay.consent.id # ""
            => /\ pay.result.id = pay.consent.id
               /\ pay.result.state \in ApprovedPaymentStatuses
       /\ pay.consent.request_id # ""
            => /\ pay.result.state = "pending"
               /\ pay.result.request_id = pay.consent.request_id
               /\ pay.result.redirect_url

\* status.HTTP_503_SERVICE_UNAVAILABLE, the status the gateway gives to a
\* failure of the connection
UPSTREAM_UNAVAILABLE == 503

\* C24: get_accounts and get_transactions turn every failure of the bank
\* into an HTTPException of the failure's kind: 401, 403 and 404 as they
\* are, a 5xx answer and a failed connection as 503; and no exception other
\* than HTTPException leaves them.
C24_FailuresClassified ==
    fetched.op # "" =>
        /\ fetched.result.raised \in {"", "HTTPException"}
        /\ fetched.answer.kind = "RequestError"
             => /\ fetched.result.raised = "HTTPException"
                /\ fetched.result.http_status = UPSTREAM_UNAVAILABLE
        /\ (fetched.answer.kind = "json" /\ fetched.answer.status \in {401, 403, 404})
             => /\ fetched.result.raised = "HTTPException"
                /\ fetched.result.http_status = fetched.answer.status
        /\ (fetched.answer.kind = "json" /\ fetched.answer.status >= 500)
             => /\ fetched.result.raised = "HTTPException"
                /\ fetched.result.http_status = UPSTREAM_UNAVAILABLE

\* the identifiers that stand for a request and not for a consent of the bank
PlaceholderIds == BankRequestIds \cup {PendingId(id) : id \in BankRequestIds}

\* C25: no reply gives, and no record keeps, the status 'authorized' for a
\* consent that has a request id and no consent id of the bank: no reply
\* about a request id or a placeholder id says 'authorized', and no record
\* whose consent_id is empty, its request id or the placeholder is
\* 'authorized'.
C25_RequestIdNeverAuthorized ==
    /\ (last.http_status = 200 /\ last.body.consent_id \in PlaceholderIds)
          => last.body.status # "authorized"
    /\ \A r \in consents :
          (r.request_id # ""
              /\ r.consent_id \in {"", r.request_id, PendingId(r.request_id)})
          => r.status # "authorized"

\* the place of a status on the way pending -> awaiting authorization ->
\* authorized
StatusRank(s) ==
    IF s = "pending" THEN 0
    ELSE IF s \in {"awaitingAuthorization", "awaiting_authorization"} THEN 1
    ELSE 2

\* new is what a step made of the record old: the record of the same bank
\* and client that replaced it
Rewritten(old, new) ==
    /\ old \in consents /\ old \notin consents'
    /\ new \in consents' /\ new \notin consents
    /\ new.bank_name = old.bank_name /\ new.client_id = old.client_id

\* C26: a step of the gateway changes a record's status only forward along
\* pending -> awaiting authorization -> authorized or to 'revoked', and it
\* never changes the status of a record that is 'revoked'.
C26_StatusMonotonic ==
    [][ \A old \in consents : \A new \in consents' :
          Rewritten(old, new)
          => /\ old.status = "revoked" => new.status = "revoked"
             /\ (old.status # "revoked" /\ new.status # "revoked")
                   => StatusRank(new.status) >= StatusRank(old.status) ]_vars

\* at most one record of each bank and client stands for a granted consent
OneAuthorized(db) ==
    \A b \in Banks, u \in UserIds : Cardinality(AuthorizedRows(db, u, b)) <= 1

\* C27: whatever the gateway has done so far, the table holds at most one
\* authorized record per (bank, client), and a further consent creation,
\* whatever the bank answers, leaves at most one.
C27_OneAuthorizedPerClient ==
    /\ OneAuthorized(consents)
    /\ \A b \in Banks, u \in UserIds, resp \in CreateAnswers :
          \A existing \in First(ApprovedRows(consents, u, b)) :
              OneAuthorized(ServiceCreateConsent(consents, b, u, resp, existing).db)

\* the bank answered the status check
StatusAnswered(resp) == resp.transport = "http" /\ resp.status < 400 /\ resp.json

ManualApprovalAnswers == {PendingPaymentConsent(k) : k \in {"Status", "status"}}

\* C29: when the creation of the payment consent is answered pending with a
\* redirect, pay_tax sets the pending row to 'awaiting_payment_approval',
\* returns the redirect and submits no payment, and the
\* confirm_payment_approval call that follows submits the payment for the
\* account pay_tax stored: for every pending row, every token the
\* authenticate route issued and every such answer.
C29_ManualApprovalResumes ==
    \A tok \in Presented, consent \in ManualApprovalAnswers :
        ( /\ tax_payment.exists
          /\ tax_payment.status = "pending"
          /\ TokenStatus(tok) = "ok" )
        => LET reply == RoutePayTax(tax_payment, tok, "vbank", "acc-1", AuthOk,
                                    consent, PaymentOk)
               resumed == RouteConfirmPaymentApproval(reply.rec, "Bearer", tok,
                              AuthOk, PaymentConsentOk, PaymentOk)
           IN  /\ reply.http_status = 200
               /\ reply.redirect_url
               /\ reply.requests = 3
               /\ reply.rec.status = "awaiting_payment_approval"
               /\ resumed.http_status = 200
               /\ resumed.requests = 3
               /\ resumed.rec.account_id = "acc-1"
               /\ resumed.rec.status = "paid"

\* the transitions of a tax payment's status the specification names
ClaimedTransitions ==
    {<<"pending", "processing">>,
     <<"pending", "awaiting_payment_approval">>,
     <<"awaiting_payment_approval", "processing">>,
     <<"processing", "paid">>,
     <<"processing", "failed">>}

\* the call committed 'processing' before its last commit: pay_tax does so
\* once the payment consent has an id, before its fourth request, and
\* confirm_payment_approval before it reads the account identification and
\* sends its third
ThroughProcessing(op, before, after, requests) ==
    IF op = "pay_tax" THEN requests = 4
    ELSE \/ requests = 3
         \/ requests = 2 /\ after # before /\ after.error_message = "AttributeError"

\* the statuses of the row over one call, commit by commit
StatusPath(op, before, after, requests) ==
    IF ThroughProcessing(op, before, after, requests)
    THEN <<before.status, "processing", after.status>>
    ELSE <<before.status, after.status>>

\* C30: the status of a tax payment changes only along pending ->
\* processing, pending -> awaiting_payment_approval -> processing,
\* processing -> paid and processing -> failed: every commit of a pay_tax or
\* confirm_payment_approval call that changes the status of the row is one
\* of these transitions.
C30_StatusTransitions ==
    [][ tax_payment.exists
        => LET path == StatusPath(pay'.op, tax_payment, tax_payment', pay'.requests)
           IN  \A i \in 1..(Len(path) - 1) :
                   \/ path[i] = path[i + 1]
                   \/ <<path[i], path[i + 1]>> \in ClaimedTransitions ]_vars

\* what get_accounts gives pay_tax for the account of the request: the call
\* raises, the account is not in the list, or it is there with its number
\* in the nested 'account' array, in a direct field, or nowhere
AccountLookups == {"raises", "not listed", "nested", "nested without number",
                   "direct", "no number"}

FailedLookups == {"raises", "not listed", "nested without number", "no number"}

\* pay_tax's account_identification after the look-up
AccountIdentification(account_id, lookup) ==
    IF lookup \in {"nested", "direct"} THEN "identification of " \o account_id
    ELSE account_id

\* C31: when pay_tax cannot resolve the account's identification (the
\* accounts call raises, the account is not listed, or it has no
\* identification), the call goes on to the creation of the payment consent
\* with the account id as debtor account: for every pending row, every token
\* the authenticate route issued and every failed look-up.
C31_LookupFailureFallsBack ==
    \A tok \in Presented, lookup \in FailedLookups :
        ( /\ tax_payment.exists
          /\ tax_payment.status = "pending"
          /\ TokenStatus(tok) = "ok" )
        => /\ AccountIdentification("acc-1", lookup) = "acc-1"
           /\ RoutePayTax(tax_payment, tok, "vbank", "acc-1", AuthOk,
                          PaymentConsentOk, PaymentOk).requests >= 3

\* the locks as a call may find them: who is inside "async with lock" of a
\* client id, and who waits for it
LocksPerClient ==
    /\ \A c \in ClientIds :
          /\ lock_owner[c] # NoTask
                => /\ task[lock_owner[c]].pc = "upstream"
                   /\ task[lock_owner[c]].client_id = c
          /\ \A i \in 1..Len(lock_waiters[c]) :
                /\ task[lock_waiters[c][i]].pc = "waiting"
                /\ task[lock_waiters[c][i]].client_id = c
          /\ (lock_owner[c] # NoTask \/ lock_waiters[c] # <<>>) => c \in token_locks
    /\ \A p \in Tasks :
          task[p].pc = "waiting"
              => \E i \in 1..Len(lock_waiters[task[p].client_id]) :
                     lock_waiters[task[p].client_id][i] = p

\* C32: authenticate_team calls for different client ids never block one
\* another.  Each client id has its own lock; the lock of a client id is
\* held only by a call for that client id that is at its upstream request,
\* and awaited only by calls for that client id; a call starts to wait only
\* when the lock of its own client id is held or awaited; and a call that
\* finds a live cache entry returns without touching any lock.
C32_LocksIndependent ==
    [][ /\ LocksPerClient'
        /\ \A p \in Tasks :
              /\ (task[p].pc = "idle" /\ task'[p].pc = "waiting")
                    => \/ lock_owner[task'[p].client_id] # NoTask
                       \/ lock_waiters[task'[p].client_id] # <<>>
              /\ ( /\ task[p].pc = "idle" /\ task'[p].pc = "done"
                   /\ task'[p].result.kind = "ok" )
                    => UNCHANGED <<token_locks, lock_owner, lock_waiters>> ]_vars

\* calls for two client ids are at their upstream requests at the same
\* time, each inside its own lock
C32_Witness ==
    \E p, q \in Tasks :
        /\ task[p].pc = "upstream" /\ task[q].pc = "upstream"
        /\ task[p].client_id # task[q].client_id
        /\ lock_owner[task[p].client_id] = p
        /\ lock_owner[task[q].client_id] = q

(***************************************************************************)
(* Concurrent requests of the transaction cache (SpecRace).                 *)
(***************************************************************************)
\* two requests for one key that overlapped at the bank, both of which
\* stored their result, the bank treating both alike
RacingWriters(a, b) ==
    /\ a # b
    /\ listing[a].pc = "done" /\ listing[b].pc = "done"
    /\ listing[a].key = listing[b].key
    /\ a \in listing[b].concurrent
    /\ listing[a].stored.present /\ listing[b].stored.present
    /\ listing[a].honoured = listing[b].honoured
    /\ listing[a].shape = listing[b].shape

\* C33: two list_transactions requests for the same key that both miss and
\* overlap at the bank store equivalent data: the transactions the key's
\* entry is left with are the same whichever of the two stores last.
C33_RacingWritersAgree ==
    \A a, b \in Requests :
        RacingWriters(a, b)
            => listing[a].stored.transactions = listing[b].stored.transactions

\* what get_transactions can give for a request of the bank's list with the
\* date parameters of f: the bank applies them or not, under either shape
FetchesFor(bank_name, f) ==
    {ServiceGetTransactions(DataAnswer("json", 200), TransactionsBody(shape, items)).value :
        shape \in TxShapes,
        items \in {BankHolds(bank_name), BankSelect(BankHolds(bank_name), f)}}

\* C34: a cache hit of list_transactions is served from transactions that
\* were fetched with the parameters of the current request: the entry a
\* request is served from is one a fetch with its own date range gives.
C34_HitMatchesRequest ==
    (ValidListing /\ listed.http_status = 200 /\ listed.from_cache)
        => tx_cache[listed.key].transactions \in FetchesFor(listed.key[1], listed.filters)

\* the row as a served payment leaves it
PaidRow(rec) == [rec EXCEPT !.status = "paid", !.payment_date = TRUE, !.payment_id = "pay-1"]

SubmitRequest(op) == IF op = "pay_tax" THEN 4 ELSE 3

\* the last call got as far as submit_payment
PaymentSubmitted ==
    /\ pay.op \in {"pay_tax", "confirm_payment_approval"}
    /\ pay.requests = SubmitRequest(pay.op)

RowConsistent(rec) ==
    /\ rec.status = "paid" => rec.payment_date
    /\ rec.payment_date => rec.status = "paid"
    /\ rec.status = "failed" => rec.error_message # ""

ReachedRowConsistent == tax_payment.exists => RowConsistent(tax_payment)

(***************************************************************************)
(* The release of the per-client lock (SpecLock).                           *)
(***************************************************************************)
\* no call that has ended still holds or awaits a lock
LockLeft ==
    \A p \in Tasks : task[p].pc = "done"
        => \A c \in ClientIds :
              /\ lock_owner[c] # p
              /\ \A i \in 1..Len(lock_waiters[c]) : lock_waiters[c][i] # p

\* a call that started after a failed authentication of its client id is
\* not kept out by it: it is at its upstream request, has ended, or awaits
\* a lock that a call still in flight holds or is about to take
NotKeptOut ==
    \A p, q \in Tasks :
        ( /\ p \in task[q].earlier
          /\ task[p].result.kind = "error"
          /\ task[q].pc = "waiting" )
        => \E h \in Tasks \ {p} :
              /\ task[h].client_id = task[q].client_id
              /\ task[h].pc \in {"waiting", "upstream"}
              /\ \/ lock_owner[task[q].client_id] = h
                 \/ lock_waiters[task[q].client_id] # <<>>
                      /\ Head(lock_waiters[task[q].client_id]) = h

\* C38: authenticate_team leaves the per-client lock on every exit path, so
\* a failed authentication keeps no later call of its client id from the
\* lock and the upstream, and every call that awaits the lock or the
\* upstream returns in the end, given that each upstream request answers or
\* times out.
C38_LockReleasedOnEveryPath ==
    /\ [](LockLeft /\ NotKeptOut)
    /\ \A p \in Tasks : (task[p].pc \in {"waiting", "upstream"}) ~> (task[p].pc = "done")

\* after a failed authentication a later call for the same client id is at
\* its upstream request, inside the lock
C38_Witness ==
    \E p, q \in Tasks :
        /\ p \in task[q].earlier
        /\ task[p].result.kind = "error" /\ task[p].requests = 1
        /\ task[q].pc = "upstream"
        /\ lock_owner[task[q].client_id] = q

\* the calls that end in this step with an error
FailingNow(p) ==
    /\ task[p].pc # "done"
    /\ task'[p].pc = "done"
    /\ task'[p].result.kind = "error"

\* C39: an authenticate_team call that fails, whatever the error (a missing
\* credential, an error status, a transport failure, a body that is not
\* JSON or a 200 answer without access_token), leaves the token cache as it
\* was: the entry of every client id is the same after the call as before,
\* and each entry that was live is still.
C39_FailureLeavesCache ==
    [][ \A p \in Tasks :
            FailingNow(p)
                => /\ token_cache' = token_cache
                   /\ \A c \in ClientIds :
                         CacheLive(token_cache[c], now) => CacheLive(token_cache'[c], now') ]_vars

\* a call has failed on a 200 answer without access_token while the token of
\* another client id is cached and live
C39_Witness ==
    \E p \in Tasks :
        /\ task[p].pc = "done"
        /\ task[p].result.kind = "error"
        /\ task[p].requests = 1
        /\ task[p].answer.status = 200 /\ task[p].answer.json /\ ~task[p].answer.has_token
        /\ \E c \in ClientIds \ {task[p].client_id} : CacheLive(token_cache[c], now)

====
